---------------------------- MODULE Spec2Model ----------------------------
(***************************************************************************)
(* Rubric evaluation and normalization engine of the communication-        *)
(* practice platform (django_api/apps/openai_integration/evaluators.py).   *)
(*                                                                         *)
(* The two normalizers, RubricPackEvaluator._normalize_response            *)
(* (hierarchical mode) and CategoryRubricEvaluator._normalize_response     *)
(* (legacy category mode), are pure functions of (judge JSON, resolved     *)
(* rubric).  They are operators here; Init draws the rubric and the judge  *)
(* JSON from bounded sets and the actions apply the operators.             *)
(***************************************************************************)
EXTENDS Integers, Sequences, FiniteSets, TLC

(***************************************************************************)
(* Python floats.  The weights of the resolved rubric are Python floats    *)
(* (IEEE-754 binary64), and the section, template and overall sums, the    *)
(* percentage and the pass test are computed in float arithmetic.  A       *)
(* non-negative finite float is [m, e] with value m * 2^e, where m is 0 or *)
(* 2^52 <= m < 2^53.  m does not fit a machine integer of the checker, so  *)
(* it is a two-limb natural <<hi, lo>> = hi * 2^30 + lo, below 2^60.        *)
(***************************************************************************)
LimbBase == 2^30

BigOf(n) == <<n \div LimbBase, n % LimbBase>>

BigAdd(a, b) ==
    LET lo == a[2] + b[2]
    IN  <<a[1] + b[1] + (lo \div LimbBase), lo % LimbBase>>

BigSub(a, b) ==
    LET lo == a[2] - b[2]
    IN  IF lo < 0 THEN <<a[1] - b[1] - 1, lo + LimbBase>>
                  ELSE <<a[1] - b[1], lo>>

BigLess(a, b) == a[1] < b[1] \/ (a[1] = b[1] /\ a[2] < b[2])

BigDouble(a) == BigAdd(a, a)

BigHalf(a) == <<a[1] \div 2, (a[2] \div 2) + (a[1] % 2) * (LimbBase \div 2)>>

BigOdd(a) == a[2] % 2 = 1

BigZero == <<0, 0>>

Two52 == <<2^22, 0>>

Two53 == <<2^23, 0>>

FloatZero == [m |-> BigZero, e |-> 0]

\* Round-to-nearest, ties-to-even, of the exact value (n + f) * 2^e, where the
\* fraction 0 <= f < 1 is non-zero iff sticky; n >= 2^52.  guard is the last
\* bit shifted out so far.
RECURSIVE RoundShift(_, _, _, _)
RoundShift(n, e, guard, sticky) ==
    IF ~BigLess(n, Two53)
    THEN RoundShift(BigHalf(n), e + 1, BigOdd(n), sticky \/ guard)
    ELSE LET up == guard /\ (sticky \/ BigOdd(n))
             r  == IF up THEN BigAdd(n, BigOf(1)) ELSE n
         IN  IF r = Two53 THEN [m |-> Two52, e |-> e + 1]
                          ELSE [m |-> r, e |-> e]

\* The float of the exact value n * 2^e for 0 < n < 2^53: no rounding.
RECURSIVE NormalizeLeft(_, _)
NormalizeLeft(n, e) ==
    IF BigLess(n, Two52) THEN NormalizeLeft(BigDouble(n), e - 1)
                         ELSE [m |-> n, e |-> e]

FloatOfInt(n) == IF n = 0 THEN FloatZero ELSE NormalizeLeft(BigOf(n), 0)

\* Binary long division num / den of small positive integers, carried to 55
\* quotient bits, then rounded: the float nearest to the rational num / den.
RECURSIVE DivideSmall(_, _, _, _)
DivideSmall(q, r, den, e) ==
    IF ~BigLess(q, BigDouble(Two53))
    THEN RoundShift(q, e, FALSE, r # 0)
    ELSE LET r2  == 2 * r
             bit == IF r2 >= den THEN 1 ELSE 0
         IN  DivideSmall(BigAdd(BigDouble(q), BigOf(bit)), r2 - bit * den, den, e - 1)

\* float(Decimal) of a two-decimal-place value given in hundredths.
FloatOfCentis(k) ==
    IF k = 0 THEN FloatZero
    ELSE DivideSmall(BigOf(k \div 100), k % 100, 100, 0)

\* n * 2^k for 0 <= k < 30, the result below 2^60.
ShiftLeft(n, k) ==
    LET cut == 2^(30 - k)
    IN  <<n[1] * 2^k + (n[2] \div cut), (n[2] % cut) * 2^k>>

\* n shifted right by k bits, with the OR of the bits shifted out.
RECURSIVE ShiftRightSticky(_, _, _)
ShiftRightSticky(n, k, sticky) ==
    IF k = 0 \/ n = BigZero THEN [n |-> n, sticky |-> sticky]
    ELSE IF k >= 30 THEN ShiftRightSticky(<<0, n[1]>>, k - 30, sticky \/ n[2] # 0)
    ELSE LET cut == 2^k
         IN  [n |-> <<n[1] \div cut, (n[2] \div cut) + (n[1] % cut) * 2^(30 - k)>>,
              sticky |-> sticky \/ n[2] % cut # 0]

\* x + y of two non-negative floats.  Both mantissas get three extra low
\* bits; the smaller operand is aligned to the larger one's exponent.
FloatAdd(x, y) ==
    IF x.m = BigZero THEN y
    ELSE IF y.m = BigZero THEN x
    ELSE LET hi == IF x.e >= y.e THEN x ELSE y
             lo == IF x.e >= y.e THEN y ELSE x
             a  == ShiftLeft(hi.m, 3)
             b  == ShiftRightSticky(ShiftLeft(lo.m, 3), hi.e - lo.e, FALSE)
         IN  RoundShift(BigAdd(a, b.n), hi.e - 3, FALSE, b.sticky)

\* n * x for the int n in {0, 1, 2}: exact.
FloatTimesInt(n, x) ==
    IF n = 0 \/ x.m = BigZero THEN FloatZero
    ELSE IF n = 1 THEN x
    ELSE [m |-> x.m, e |-> x.e + 1]

\* Long division of mantissas, carried to 55 quotient bits.
RECURSIVE DivideBig(_, _, _, _)
DivideBig(q, r, den, e) ==
    IF ~BigLess(q, BigDouble(Two53))
    THEN RoundShift(q, e, FALSE, r # BigZero)
    ELSE LET r2  == BigDouble(r)
             bit == ~BigLess(r2, den)
         IN  DivideBig(BigAdd(BigDouble(q), BigOf(IF bit THEN 1 ELSE 0)),
                       IF bit THEN BigSub(r2, den) ELSE r2, den, e - 1)

\* x / y for y > 0.
FloatDiv(x, y) ==
    IF x.m = BigZero THEN FloatZero
    ELSE LET first == ~BigLess(x.m, y.m)
         IN  DivideBig(BigOf(IF first THEN 1 ELSE 0),
                       IF first THEN BigSub(x.m, y.m) ELSE x.m,
                       y.m, x.e - y.e)

\* x * 100: the mantissa times 100 = 64 + 32 + 4 stays below 2^60.
FloatTimes100(x) ==
    IF x.m = BigZero THEN FloatZero
    ELSE RoundShift(BigAdd(ShiftLeft(x.m, 6), BigAdd(ShiftLeft(x.m, 5), ShiftLeft(x.m, 2))),
                    x.e, FALSE, FALSE)

FloatLess(x, y) ==
    IF x.m = BigZero THEN y.m # BigZero
    ELSE IF y.m = BigZero THEN FALSE
    ELSE x.e < y.e \/ (x.e = y.e /\ BigLess(x.m, y.m))

\* int(x): truncation; the values of the model stay below 2^30.
FloatToInt(x) ==
    IF x.m = BigZero \/ x.e <= -53 THEN 0
    ELSE ShiftRightSticky(x.m, 0 - x.e, FALSE).n[2]

\* round(x, 1) in tenths: Python rounds the exact binary value correctly
\* (half to even) to one decimal.  10 * m = 8m + 2m stays below 2^60.
FloatRoundTenths(x) ==
    IF x.m = BigZero \/ x.e <= -60 THEN 0
    ELSE LET ten == BigAdd(ShiftLeft(x.m, 3), ShiftLeft(x.m, 1))
             big == ShiftRightSticky(ten, (0 - x.e) - 1, FALSE)
             n   == big.n[2] \div 2
             half == big.n[2] % 2 = 1
         IN  IF half /\ (big.sticky \/ n % 2 = 1) THEN n + 1 ELSE n

(***************************************************************************)
(* JSON values as json.loads returns them.  Every value is a record        *)
(* [t, n, s, a]: t is the Python type, n the number (an int, a bool as     *)
(* 0/1, a finite float in tenths, the number of keys of an object), s the  *)
(* text of a str and a the items of a list.  "absent" stands for a key     *)
(* that the enclosing object does not have.                                *)
(***************************************************************************)
JAbsent == [t |-> "absent", n |-> 0, s |-> "", a |-> <<>>]

JNull == [t |-> "null", n |-> 0, s |-> "", a |-> <<>>]

JInt(n) == [t |-> "int", n |-> n, s |-> "", a |-> <<>>]

JBool(b) == [t |-> "bool", n |-> IF b THEN 1 ELSE 0, s |-> "", a |-> <<>>]

JFloat(tenths) == [t |-> "float", n |-> tenths, s |-> "", a |-> <<>>]

\* json.loads reads 1e400 and Infinity as float('inf').
JInfinity == [t |-> "inf", n |-> 0, s |-> "", a |-> <<>>]

JStr(str) == [t |-> "str", n |-> 0, s |-> str, a |-> <<>>]

JList(items) == [t |-> "list", n |-> 0, s |-> "", a |-> items]

JObject(nkeys) == [t |-> "dict", n |-> nkeys, s |-> "", a |-> <<>>]

\* dict.get(key, default)
Get(field, default) == IF field.t = "absent" THEN default ELSE field

\* hash(v) succeeds: lists and dicts are unhashable.
Hashable(v) == v.t \notin {"list", "dict"}

IsNumber(v) == v.t \in {"int", "bool", "float"}

\* Ten times the numeric value of an int, bool or finite float.
Tenths(v) == IF v.t = "float" THEN v.n ELSE 10 * v.n

\* k1 == k2 for dictionary keys: 1, 1.0 and True are one key.
KeyEq(k1, k2) ==
    IF IsNumber(k1) /\ IsNumber(k2) THEN Tenths(k1) = Tenths(k2)
    ELSE k1.t = k2.t /\ k1.s = k2.s

\* A Python dict as the sequence of its [k, v] items in insertion order.
EmptyDict == <<>>

DictHas(d, k) == \E i \in 1..Len(d) : KeyEq(d[i].k, k)

\* d[k] = v
DictSet(d, k, v) ==
    IF DictHas(d, k)
    THEN [i \in 1..Len(d) |-> IF KeyEq(d[i].k, k) THEN [k |-> d[i].k, v |-> v] ELSE d[i]]
    ELSE Append(d, [k |-> k, v |-> v])

\* d.get(k, default)
DictGet(d, k, default) ==
    IF DictHas(d, k) THEN d[CHOOSE i \in 1..Len(d) : KeyEq(d[i].k, k)].v ELSE default

\* int(v) of an int, bool or finite float: truncation towards zero.
PyInt(v) ==
    IF v.t = "float"
    THEN IF v.n >= 0 THEN v.n \div 10 ELSE 0 - ((0 - v.n) \div 10)
    ELSE v.n

\* `for x in v` raises TypeError for None and numbers.  Iterating a str or a
\* dict yields characters or keys, none of which is a dict: every loop of the
\* normalizers skips them, so they count as no items.
Iterable(v) == v.t \in {"absent", "list", "str", "dict"}

Items(v) == IF v.t = "list" THEN v.a ELSE <<>>

\* isinstance(x, dict) for an entry x of a judge list; an entry that is no JSON
\* object (a string, a number, null) has t = "other".
IsDict(x) == x.t = "dict"

(***************************************************************************)
(* Hierarchical mode: RubricPackEvaluator._normalize_response(data, rubric)*)
(*                                                                         *)
(* rubric: [pack_id, pack_name, templates], a template is [template_id,    *)
(* name, internal_code, track_type, framework, sections], a section is     *)
(* [section_id, name, code, criteria], a criterion is [criterion_id, text, *)
(* weight, is_required] with weight a float.                               *)
(* data: [templates, overall]; a template entry is [t, template_id,        *)
(* sections, template_score], a section entry [t, section_id, criteria,    *)
(* score], a criterion entry [t, criterion_id, score, evidence,            *)
(* rewrite_if_missing], an evidence value [t, message_indices, quotes].    *)
(***************************************************************************)

\* Lines 756-759: ai_criteria of one section entry.
RECURSIVE AiCriteria(_, _)
AiCriteria(cs, n) ==
    IF n = 0 THEN EmptyDict
    ELSE LET c == cs[n]
             before == AiCriteria(cs, n - 1)
         IN  IF IsDict(c) /\ c.criterion_id.t # "absent"
             THEN DictSet(before, c.criterion_id, c)
             ELSE before

\* Lines 753-760: ai_sections of one template entry.
RECURSIVE AiSections(_, _)
AiSections(ss, n) ==
    IF n = 0 THEN EmptyDict
    ELSE LET sec == ss[n]
             before == AiSections(ss, n - 1)
         IN  IF IsDict(sec) /\ sec.section_id.t # "absent"
             THEN DictSet(before, sec.section_id,
                          AiCriteria(Items(sec.criteria), Len(Items(sec.criteria))))
             ELSE before

\* Lines 750-761: ai_templates.
RECURSIVE AiTemplates(_, _)
AiTemplates(ts, n) ==
    IF n = 0 THEN EmptyDict
    ELSE LET tpl == ts[n]
             before == AiTemplates(ts, n - 1)
         IN  IF IsDict(tpl) /\ tpl.template_id.t # "absent"
             THEN DictSet(before, tpl.template_id,
                          AiSections(Items(tpl.sections), Len(Items(tpl.sections))))
             ELSE before

\* Lines 750-761 raise TypeError: a `templates`, `sections` or `criteria` value
\* that cannot be iterated, or an id that cannot be hashed.
IndexRaises(data) ==
    \/ ~Iterable(data.templates)
    \/ \E i \in 1..Len(Items(data.templates)) :
         LET tpl == Items(data.templates)[i] IN
         /\ IsDict(tpl) /\ tpl.template_id.t # "absent"
         /\ \/ ~Iterable(tpl.sections)
            \/ ~Hashable(tpl.template_id)
            \/ \E j \in 1..Len(Items(tpl.sections)) :
                 LET sec == Items(tpl.sections)[j] IN
                 /\ IsDict(sec) /\ sec.section_id.t # "absent"
                 /\ \/ ~Iterable(sec.criteria)
                    \/ ~Hashable(sec.section_id)
                    \/ \E k \in 1..Len(Items(sec.criteria)) :
                         LET c == Items(sec.criteria)[k] IN
                         /\ IsDict(c) /\ c.criterion_id.t # "absent"
                         /\ ~Hashable(c.criterion_id)

\* {}: the default of ai_section.get(criterion_id, {}).
EmptyEntry ==
    [t |-> "dict", criterion_id |-> JAbsent, score |-> JAbsent,
     evidence |-> [t |-> "absent", message_indices |-> JAbsent, quotes |-> JAbsent],
     rewrite_if_missing |-> JAbsent]

\* The leaf score without the clamp of line 791.
UnclampedScore(ai_crit) ==
    LET score == Get(ai_crit.score, JInt(0))
    IN  IF IsNumber(score) THEN PyInt(score) ELSE 0

\* The leaf score with int() applied to strings as well: int("2") is 2.
StringReadingScore(ai_crit) ==
    LET score == Get(ai_crit.score, JInt(0))
        n     == IF IsNumber(score) THEN PyInt(score)
                 ELSE IF score.t = "str" /\ score.s \in {"0", "1", "2"}
                      THEN (CHOOSE d \in 0..2 : <<"0", "1", "2">>[d + 1] = score.s)
                      ELSE 0
        low   == IF 2 < n THEN 2 ELSE n
    IN  IF 0 > low THEN 0 ELSE low

\* Lines 789-791: the leaf score.
ClampedScore(ai_crit) ==
    LET score == Get(ai_crit.score, JInt(0))
        n     == IF IsNumber(score) THEN PyInt(score) ELSE 0
        low   == IF 2 < n THEN 2 ELSE n
    IN  IF 0 > low THEN 0 ELSE low

\* Line 790 raises OverflowError: int(float('inf')).
ScoreRaises(ai_crit) == Get(ai_crit.score, JInt(0)).t = "inf"

\* Lines 804, 812-813 raise AttributeError: evidence.get on a value that is no dict.
EvidenceRaises(ai_crit) == ai_crit.evidence.t \notin {"absent", "dict"}

\* Lines 785-816: one pass of the loop over the criteria: the entry appended to
\* out_criteria, and whether the pass raises.
CriterionStep(crit_data, ai_section) ==
    LET ai_crit == DictGet(ai_section, JInt(crit_data.criterion_id), EmptyEntry)
        score   == ClampedScore(ai_crit)
    IN  [raises |-> ScoreRaises(ai_crit) \/ EvidenceRaises(ai_crit),
         out |->
           [criterion_id |-> crit_data.criterion_id,
            text |-> crit_data.text,
            is_required |-> crit_data.is_required,
            weight |-> crit_data.weight,
            score |-> score,
            evidence |->
              [message_indices |-> Get(ai_crit.evidence.message_indices, JList(<<>>)),
               quotes |-> Get(ai_crit.evidence.quotes, JList(<<>>))],
            rewrite_if_missing |->
              IF score < 2 THEN Get(ai_crit.rewrite_if_missing, JNull) ELSE JNull]]

\* Lines 781-783: the locals of the loop over the criteria before its first
\* pass; raises tells whether a pass raised.
NoCriteria ==
    [raises |-> FALSE, out_criteria |-> <<>>,
     section_score |-> FloatZero, section_max |-> FloatZero]

\* Lines 800-816: the locals after one more pass of the loop over the criteria.
AfterCriterion(before, step) ==
    [raises |-> before.raises \/ step.raises,
     out_criteria |-> Append(before.out_criteria, step.out),
     section_score |-> FloatAdd(before.section_score,
                                FloatTimesInt(step.out.score, step.out.weight)),
     section_max |-> FloatAdd(before.section_max, FloatTimesInt(2, step.out.weight))]

\* A loop over the criteria that skips the criteria the judge did not answer.
RECURSIVE CriteriaLoopOverAnswers(_, _, _)
CriteriaLoopOverAnswers(criteria, n, ai_section) ==
    IF n = 0 THEN NoCriteria
    ELSE IF DictHas(ai_section, JInt(criteria[n].criterion_id))
         THEN AfterCriterion(CriteriaLoopOverAnswers(criteria, n - 1, ai_section),
                             CriterionStep(criteria[n], ai_section))
         ELSE CriteriaLoopOverAnswers(criteria, n - 1, ai_section)

\* Lines 781-816: the loop over the first n criteria of a section.
RECURSIVE CriteriaLoop(_, _, _)
CriteriaLoop(criteria, n, ai_section) ==
    IF n = 0 THEN NoCriteria
    ELSE AfterCriterion(CriteriaLoop(criteria, n - 1, ai_section),
                        CriterionStep(criteria[n], ai_section))

\* Lines 818-825: the entry appended to out_sections.
SectionOut(section_data, loop) ==
    [section_id |-> section_data.section_id,
     name |-> section_data.name,
     code |-> section_data.code,
     score |-> FloatToInt(loop.section_score),
     max_score |-> FloatToInt(loop.section_max),
     criteria |-> loop.out_criteria]

\* Lines 773-775: the locals of the loop over the sections before its first pass.
NoSections ==
    [raises |-> FALSE, out_sections |-> <<>>,
     template_score |-> FloatZero, template_max |-> FloatZero]

\* Lines 818-828: the locals after one more pass of the loop over the sections,
\* loop being what the loop over the section's criteria left.
AfterSection(before, section_data, loop) ==
    [raises |-> before.raises \/ loop.raises,
     out_sections |-> Append(before.out_sections, SectionOut(section_data, loop)),
     template_score |-> FloatAdd(before.template_score, loop.section_score),
     template_max |-> FloatAdd(before.template_max, loop.section_max)]

\* Lines 777-828: the loop over the first n sections of a template.
RECURSIVE SectionsLoop(_, _, _)
SectionsLoop(sections, n, ai_template) ==
    IF n = 0 THEN NoSections
    ELSE AfterSection(SectionsLoop(sections, n - 1, ai_template), sections[n],
                      CriteriaLoop(sections[n].criteria, Len(sections[n].criteria),
                                   DictGet(ai_template, JInt(sections[n].section_id),
                                           EmptyDict)))

\* Lines 830-839: the entry appended to out_templates.
TemplateOut(template_data, loop) ==
    [template_id |-> template_data.template_id,
     name |-> template_data.name,
     internal_code |-> template_data.internal_code,
     track_type |-> template_data.track_type,
     framework |-> template_data.framework,
     sections |-> loop.out_sections,
     template_score |-> FloatToInt(loop.template_score),
     template_max_score |-> FloatToInt(loop.template_max)]

\* Lines 764-766: the locals of the loop over the templates before its first pass.
NoTemplates ==
    [raises |-> FALSE, out_templates |-> <<>>,
     total_score |-> FloatZero, max_score |-> FloatZero]

\* Lines 830-842: the locals after one more pass of the loop over the templates.
AfterTemplate(before, template_data, loop) ==
    [raises |-> before.raises \/ loop.raises,
     out_templates |-> Append(before.out_templates, TemplateOut(template_data, loop)),
     total_score |-> FloatAdd(before.total_score, loop.template_score),
     max_score |-> FloatAdd(before.max_score, loop.template_max)]

\* Lines 769-842: the loop over the first n templates of the rubric.
RECURSIVE TemplatesLoop(_, _, _)
TemplatesLoop(templates, n, ai_templates) ==
    IF n = 0 THEN NoTemplates
    ELSE AfterTemplate(TemplatesLoop(templates, n - 1, ai_templates), templates[n],
                       SectionsLoop(templates[n].sections, Len(templates[n].sections),
                                    DictGet(ai_templates, JInt(templates[n].template_id),
                                            EmptyDict)))

\* Lines 767, 797-798: all_required_met after the loops.
AllRequiredMet(out_templates) ==
    \A i \in 1..Len(out_templates) :
      \A j \in 1..Len(out_templates[i].sections) :
        \A k \in 1..Len(out_templates[i].sections[j].criteria) :
          LET c == out_templates[i].sections[j].criteria[k]
          IN  ~(c.is_required /\ c.score < 2)

\* Line 844: percentage.
Percentage(total_score, max_score) ==
    IF FloatLess(FloatZero, max_score)
    THEN FloatTimes100(FloatDiv(total_score, max_score))
    ELSE FloatZero

\* The pass threshold of line 845, in percent.
PassPercent == 60

\* Line 845: passed.
Passed(percentage, all_required_met) ==
    ~FloatLess(percentage, FloatOfInt(PassPercent)) /\ all_required_met

\* Lines 847-861: the value returned.
PackResult(rubric, loop, percentage, all_required_met) ==
    [raised |-> FALSE,
     version |-> "2.0",
     pack |-> [id |-> rubric.pack_id, name |-> rubric.pack_name],
     templates |-> loop.out_templates,
     overall |->
       [total_score |-> FloatToInt(loop.total_score),
        max_score |-> FloatToInt(loop.max_score),
        percentage |-> FloatRoundTenths(percentage),
        passed |-> Passed(percentage, all_required_met),
        required_criteria_met |-> all_required_met]]

\* Lines 844-861: after the loops.
PackFinish(rubric, loop) ==
    IF loop.raises THEN [raised |-> TRUE]
    ELSE PackResult(rubric, loop, Percentage(loop.total_score, loop.max_score),
                    AllRequiredMet(loop.out_templates))

\* RubricPackEvaluator._normalize_response: the value returned, or the fact
\* that an exception left the function.
PackNormalize(data, rubric) ==
    IF IndexRaises(data) THEN [raised |-> TRUE]
    ELSE PackFinish(rubric,
                    TemplatesLoop(rubric.templates, Len(rubric.templates),
                                  AiTemplates(Items(data.templates),
                                              Len(Items(data.templates)))))

(***************************************************************************)
(* Legacy category mode:                                                   *)
(* CategoryRubricEvaluator._normalize_response(data, rubric)               *)
(*                                                                         *)
(* rubric: a list of categories [category_id, name, required_to_pass,      *)
(* criteria], a criterion being [subcategory_id, name,                     *)
(* marking_instructions].                                                  *)
(* data: [categories, overall]; a category entry is [t, category_id,       *)
(* criteria, score, passed], a subcategory entry [t, subcategory_id,       *)
(* score, evidence, rewrite_if_missing], overall [t, total_score, passed]. *)
(***************************************************************************)

\* Lines 267-271: by_cat.
RECURSIVE ByCat(_, _)
ByCat(cs, n) ==
    IF n = 0 THEN EmptyDict
    ELSE LET c == cs[n]
             before == ByCat(cs, n - 1)
         IN  IF IsDict(c) /\ c.category_id.t # "absent"
             THEN DictSet(before, c.category_id, c)
             ELSE before

\* Lines 267-271 raise TypeError.
ByCatRaises(data) ==
    \/ ~Iterable(data.categories)
    \/ \E i \in 1..Len(Items(data.categories)) :
         LET c == Items(data.categories)[i]
         IN  IsDict(c) /\ c.category_id.t # "absent" /\ ~Hashable(c.category_id)

\* {}: the default of by_cat.get(cat["category_id"], {}).
EmptyCategory ==
    [t |-> "dict", category_id |-> JAbsent, criteria |-> JAbsent,
     score |-> JAbsent, passed |-> JAbsent]

\* {}: the default of by_sub.get(sub["subcategory_id"], {}).
EmptyItem ==
    [t |-> "dict", subcategory_id |-> JAbsent, score |-> JAbsent,
     evidence |-> [t |-> "absent", message_indices |-> JAbsent, quotes |-> JAbsent],
     rewrite_if_missing |-> JAbsent]

\* Line 277: crit_in.
CritIn(picked) == IF picked.criteria.t = "list" THEN picked.criteria.a ELSE <<>>

\* Lines 280-284: by_sub; x.get("subcategory_id") is None for an entry without the key.
RECURSIVE BySub(_, _)
BySub(xs, n) ==
    IF n = 0 THEN EmptyDict
    ELSE LET x == xs[n]
             before == BySub(xs, n - 1)
         IN  IF IsDict(x) THEN DictSet(before, Get(x.subcategory_id, JNull), x)
                          ELSE before

\* Lines 280-284 raise TypeError.
BySubRaises(xs) ==
    \E i \in 1..Len(xs) : IsDict(xs[i]) /\ ~Hashable(xs[i].subcategory_id)

\* Lines 291-292: the subcategory score.
LegacyScore(item) ==
    LET score == Get(item.score, JInt(0))
    IN  IF score.t \in {"int", "bool"} THEN score.n ELSE 0

\* Lines 300-301 raise AttributeError.
LegacyEvidenceRaises(item) == item.evidence.t \notin {"absent", "dict"}

\* Lines 290-304: one entry of crit_out, item being by_sub.get(..., {}).
SubOut(sub, item) ==
    [subcategory_id |-> sub.subcategory_id,
     name |-> sub.name,
     score |-> LegacyScore(item),
     evidence |-> [message_indices |-> Get(item.evidence.message_indices, JList(<<>>)),
                   quotes |-> Get(item.evidence.quotes, JList(<<>>))],
     rewrite_if_missing |-> Get(item.rewrite_if_missing, JStr(""))]

RECURSIVE SumInts(_, _)
SumInts(xs, n) == IF n = 0 THEN 0 ELSE SumInts(xs, n - 1) + xs[n]

\* Lines 275-317: one pass of the loop over the rubric: the entry appended to
\* out_categories, and whether the pass raises.
CategoryStep(cat, by_cat) ==
    LET picked   == DictGet(by_cat, JInt(cat.category_id), EmptyCategory)
        crit_in  == CritIn(picked)
        by_sub   == BySub(crit_in, Len(crit_in))
        items    == [k \in 1..Len(cat.criteria) |->
                       DictGet(by_sub, JInt(cat.criteria[k].subcategory_id), EmptyItem)]
        crit_out == [k \in 1..Len(cat.criteria) |-> SubOut(cat.criteria[k], items[k])]
        cat_score == SumInts([k \in 1..Len(crit_out) |-> crit_out[k].score], Len(crit_out))
        required == cat.required_to_pass
    IN  [raises |-> \/ BySubRaises(crit_in)
                    \/ \E k \in 1..Len(cat.criteria) : LegacyEvidenceRaises(items[k]),
         out |->
           [category_id |-> cat.category_id,
            name |-> cat.name,
            score |-> cat_score,
            required_to_pass |-> required,
            passed |-> IF required # 0 THEN cat_score >= required ELSE TRUE,
            criteria |-> crit_out]]

\* int(s) of a str: the decimal literals of the model's vocabulary.
IntLiterals == {"0", "1", "2", "3", "4", "5", "6", "7", "8", "9"}

StrToInt(str) ==
    CASE str = "0" -> 0 [] str = "1" -> 1 [] str = "2" -> 2 [] str = "3" -> 3
      [] str = "4" -> 4 [] str = "5" -> 5 [] str = "6" -> 6 [] str = "7" -> 7
      [] str = "8" -> 8 [] str = "9" -> 9

\* int(v) raises: TypeError for None, a list, a dict; ValueError for a str that
\* is no integer literal; OverflowError for an infinite float.
IntRaises(v) ==
    \/ v.t \in {"null", "list", "dict", "inf"}
    \/ v.t = "str" /\ v.s \notin IntLiterals

\* int(v) of any value.
IntOf(v) == IF v.t = "str" THEN StrToInt(v.s) ELSE PyInt(v)

\* bool(v)
Truthy(v) ==
    CASE v.t \in {"int", "bool", "float"} -> v.n # 0
      [] v.t = "inf" -> TRUE
      [] v.t = "str" -> v.s # ""
      [] v.t = "list" -> Len(v.a) > 0
      [] v.t = "dict" -> v.n > 0
      [] OTHER -> FALSE

\* Lines 319-323: overall_out.
OverallOut(overall, total_score, out_categories) ==
    [total_score |-> IntOf(Get(overall.total_score, JInt(total_score))),
     passed |-> Truthy(Get(overall.passed,
                           JBool(\A i \in 1..Len(out_categories) :
                                    out_categories[i].passed)))]

\* Lines 319-323 raise: overall.get on a value that is no dict, or int().
OverallRaises(overall) ==
    \/ overall.t \notin {"absent", "dict"}
    \/ IntRaises(Get(overall.total_score, JInt(0)))

\* CategoryRubricEvaluator._normalize_response: the value returned, or the
\* fact that an exception left the function.
CategoryNormalize(data, rubric) ==
    IF ByCatRaises(data) THEN [raised |-> TRUE]
    ELSE LET by_cat == ByCat(Items(data.categories), Len(Items(data.categories)))
             steps == [i \in 1..Len(rubric) |-> CategoryStep(rubric[i], by_cat)]
             out_categories == [i \in 1..Len(rubric) |-> steps[i].out]
             total_score == SumInts([i \in 1..Len(rubric) |-> out_categories[i].score],
                                    Len(rubric))
         IN  IF (\E i \in 1..Len(rubric) : steps[i].raises) \/ OverallRaises(data.overall)
             THEN [raised |-> TRUE]
             ELSE [raised |-> FALSE,
                   categories |-> out_categories,
                   overall |-> OverallOut(data.overall, total_score, out_categories)]

(***************************************************************************)
(* Inputs.  A resolved rubric as load_activity_rubric builds it, and a     *)
(* judge document as json.loads returns it.                                *)
(***************************************************************************)

\* Longest list of templates of a rubric.
MaxTemplates == 2

\* Longest list of sections of a template, and of categories of a legacy rubric.
MaxSections == 2

\* Longest list of criteria of a section, and of subcategories of a category.
MaxCriteria == 2

\* Longest list the judge returns at the level under variation.
MaxJudgeItems == 2

\* Weights in hundredths (DecimalField with two decimal places).
WeightCentis == {35, 50, 100, 140, 150}

\* float(weight) of every weight.
WeightFloat == [k \in WeightCentis |-> FloatOfCentis(k)]

RCriterion(id, centis, req) ==
    [criterion_id |-> id, text |-> "criterion text",
     weight |-> WeightFloat[centis], is_required |-> req]

RSection(id, criteria) ==
    [section_id |-> id, name |-> "section", code |-> "S", criteria |-> criteria]

RTemplate(id, sections) ==
    [template_id |-> id, name |-> "template", internal_code |-> "T",
     track_type |-> "clinical_content",
     framework |-> [code |-> "F", name |-> "framework"], sections |-> sections]

PackRubric(templates) == [pack_id |-> 1, pack_name |-> "pack", templates |-> templates]

NoEvidence == [t |-> "absent", message_indices |-> JAbsent, quotes |-> JAbsent]

EvidenceOfType(type) == [t |-> type, message_indices |-> JAbsent, quotes |-> JAbsent]

EvidenceObject(indices, quotes) ==
    [t |-> "dict", message_indices |-> indices, quotes |-> quotes]

FullEvidence == EvidenceObject(JList(<<JInt(0), JInt(2)>>), JList(<<JStr("quote")>>))

JCrit(id, score, evidence, rewrite) ==
    [t |-> "dict", criterion_id |-> id, score |-> score, evidence |-> evidence,
     rewrite_if_missing |-> rewrite]

JCritOther ==
    [t |-> "other", criterion_id |-> JAbsent, score |-> JAbsent, evidence |-> NoEvidence,
     rewrite_if_missing |-> JAbsent]

JSec(id, criteria, score) ==
    [t |-> "dict", section_id |-> id, criteria |-> criteria, score |-> score]

JSecOther == [t |-> "other", section_id |-> JAbsent, criteria |-> JAbsent, score |-> JAbsent]

JTpl(id, sections, score) ==
    [t |-> "dict", template_id |-> id, sections |-> sections, template_score |-> score]

JTplOther ==
    [t |-> "other", template_id |-> JAbsent, sections |-> JAbsent,
     template_score |-> JAbsent]

NoOverall == [t |-> "absent", total_score |-> JAbsent, passed |-> JAbsent]

OverallOfType(type) == [t |-> type, total_score |-> JAbsent, passed |-> JAbsent]

OverallObject(total, passed) == [t |-> "dict", total_score |-> total, passed |-> passed]

PackDoc(templates, overall) == [templates |-> templates, overall |-> overall]

\* All sequences over S of length at most n.
SeqsUpTo(S, n) == UNION {[1..k -> S] : k \in 0..n}

\* What a judge puts under "score".
ScoreValues ==
    {JAbsent, JNull, JInt(-5), JInt(0), JInt(1), JInt(2), JInt(7), JFloat(19), JFloat(25),
     JFloat(-5), JBool(TRUE), JStr("2"), JStr("high"), JList(<<JInt(2)>>), JInfinity}

\* What a judge puts under "evidence".
EvidenceValues ==
    {NoEvidence, EvidenceOfType("null"), EvidenceOfType("list"), EvidenceOfType("str"),
     EvidenceObject(JAbsent, JAbsent), FullEvidence}

\* What a judge puts under "rewrite_if_missing".
RewriteValues == {JAbsent, JNull, JStr("say this instead"), JStr("")}

\* Score, evidence and rewrite of one leaf entry: every evidence value and
\* every rewrite value, with every score.
LeafPayloads ==
    {[score |-> sc, evidence |-> ev, rewrite |-> JStr("say this instead")] :
        sc \in ScoreValues, ev \in EvidenceValues}
    \cup {[score |-> sc, evidence |-> FullEvidence, rewrite |-> rw] :
            sc \in ScoreValues, rw \in RewriteValues}

\* A value under a key where the judge was asked for a list.
NotALists == {JNull, JInt(5), JStr("none"), JObject(1)}

\* What a judge puts under an id key.
IdValues == {JInt(1), JInt(2), JInt(9), JFloat(10), JList(<<JInt(1)>>), JAbsent}

(***************************************************************************)
(* Hierarchical inputs.                                                    *)
(***************************************************************************)

\* One template, one section, one criterion; every leaf payload.
PackLeafInputs ==
    {[rubric |-> PackRubric(<<RTemplate(1, <<RSection(1, <<RCriterion(1, w, req)>>)>>)>>),
      data |-> PackDoc(JList(<<JTpl(JInt(1),
                  JList(<<JSec(JInt(1),
                      JList(<<JCrit(JInt(1), p.score, p.evidence, p.rewrite)>>),
                      JAbsent)>>), JAbsent)>>), NoOverall)] :
        w \in {50, 100}, req \in BOOLEAN, p \in LeafPayloads}

\* nt templates of ns sections of nc criteria; the leaves take their weight and
\* their score in turn from the pairs ws and scs, the judge answers every
\* criterion in rubric order and adds sums of its own at every level.
LeafNumber(i, j, k, ns, nc) == ((i - 1) * ns + (j - 1)) * nc + (k - 1)

Turn(pair, g) == pair[(g % 2) + 1]

RequiredAt(pattern, g) ==
    CASE pattern = "none" -> FALSE
      [] pattern = "all" -> TRUE
      [] pattern = "first" -> g % 2 = 0

GridRubric(nt, ns, nc, ws, pattern) ==
    PackRubric([i \in 1..nt |-> RTemplate(i, [j \in 1..ns |-> RSection(j,
        [k \in 1..nc |-> RCriterion(k, Turn(ws, LeafNumber(i, j, k, ns, nc)),
                                     RequiredAt(pattern, LeafNumber(i, j, k, ns, nc)))])])])

GridDoc(nt, ns, nc, scs) ==
    PackDoc(JList([i \in 1..nt |-> JTpl(JInt(i), JList([j \in 1..ns |-> JSec(JInt(j),
        JList([k \in 1..nc |-> JCrit(JInt(k), JInt(Turn(scs, LeafNumber(i, j, k, ns, nc))),
                                     FullEvidence, JStr("say this instead"))]),
        JInt(99))]), JInt(99))]), OverallObject(JInt(99), JBool(TRUE)))

\* Weight pairs of the grid: equal halves, equal units, and mixed pairs.
WeightPairs ==
    {<<50, 50>>, <<100, 100>>, <<35, 140>>, <<150, 100>>, <<140, 35>>}

PackGridInputs ==
    {[rubric |-> GridRubric(nt, ns, nc, ws, pattern), data |-> GridDoc(nt, ns, nc, scs)] :
        nt \in 1..MaxTemplates, ns \in 1..MaxSections, nc \in 1..MaxCriteria,
        ws \in WeightPairs, pattern \in {"none", "first", "all"},
        scs \in (0..2) \X (0..2)}

\* The criteria list of the judge varies: missing, extra, duplicated, unknown
\* and unhashable ids, entries that are no objects, values that are no lists.
JudgeCriteria ==
    {JCritOther}
    \cup {JCrit(id, JInt(sc), NoEvidence, JAbsent) : id \in IdValues, sc \in 1..2}

CriteriaFields ==
    NotALists \cup {JAbsent} \cup {JList(cs) : cs \in SeqsUpTo(JudgeCriteria, MaxJudgeItems)}

PackCriteriaInputs ==
    {[rubric |-> PackRubric(<<RTemplate(1, <<RSection(1,
                    [k \in 1..nc |-> RCriterion(k, 100, FALSE)])>>)>>),
      data |-> PackDoc(JList(<<JTpl(JInt(1), JList(<<JSec(JInt(1), f, JAbsent)>>),
                                    JAbsent)>>), NoOverall)] :
        nc \in 1..MaxCriteria, f \in CriteriaFields}

\* The sections list of the judge varies.
AnsweredCriteria(sc) == JList(<<JCrit(JInt(1), JInt(sc), NoEvidence, JAbsent)>>)

JudgeSections ==
    {JSecOther, JSec(JInt(1), JNull, JAbsent)}
    \cup {JSec(id, AnsweredCriteria(sc), JAbsent) : id \in IdValues, sc \in 1..2}

SectionsFields ==
    NotALists \cup {JAbsent} \cup {JList(ss) : ss \in SeqsUpTo(JudgeSections, MaxJudgeItems)}

PackSectionsInputs ==
    {[rubric |-> PackRubric(<<RTemplate(1,
                    [j \in 1..ns |-> RSection(j, <<RCriterion(1, 100, FALSE)>>)])>>),
      data |-> PackDoc(JList(<<JTpl(JInt(1), f, JAbsent)>>), NoOverall)] :
        ns \in 0..MaxSections, f \in SectionsFields}

\* The templates list of the judge varies.
AnsweredSections(sc) == JList(<<JSec(JInt(1), AnsweredCriteria(sc), JAbsent)>>)

JudgeTemplates ==
    {JTplOther, JTpl(JInt(1), JNull, JAbsent)}
    \cup {JTpl(id, AnsweredSections(sc), JAbsent) : id \in IdValues, sc \in 1..2}

TemplatesFields ==
    NotALists \cup {JAbsent} \cup {JList(ts) : ts \in SeqsUpTo(JudgeTemplates, MaxJudgeItems)}

PackTemplatesInputs ==
    {[rubric |-> PackRubric([i \in 1..nt |->
                    RTemplate(i, <<RSection(1, <<RCriterion(1, 100, FALSE)>>)>>)]),
      data |-> PackDoc(f, NoOverall)] :
        nt \in 1..MaxTemplates, f \in TemplatesFields}

(***************************************************************************)
(* Legacy inputs.                                                          *)
(***************************************************************************)
RSub(id) == [subcategory_id |-> id, name |-> "subcategory", marking_instructions |-> "mark"]

RCategory(id, required, criteria) ==
    [category_id |-> id, name |-> "category", required_to_pass |-> required,
     criteria |-> criteria]

JSub(id, score, evidence, rewrite) ==
    [t |-> "dict", subcategory_id |-> id, score |-> score, evidence |-> evidence,
     rewrite_if_missing |-> rewrite]

JSubOther ==
    [t |-> "other", subcategory_id |-> JAbsent, score |-> JAbsent, evidence |-> NoEvidence,
     rewrite_if_missing |-> JAbsent]

JCat(id, criteria, score, passed) ==
    [t |-> "dict", category_id |-> id, criteria |-> criteria, score |-> score,
     passed |-> passed]

JCatOther ==
    [t |-> "other", category_id |-> JAbsent, criteria |-> JAbsent, score |-> JAbsent,
     passed |-> JAbsent]

CategoryDoc(categories, overall) == [categories |-> categories, overall |-> overall]

\* total_required_to_pass of a category.
RequiredValues == {0, 1, 3}

\* What a judge puts under "overall".
OverallValues ==
    {NoOverall, OverallOfType("null"), OverallOfType("list"),
     OverallObject(JAbsent, JAbsent),
     OverallObject(JInt(99), JAbsent),
     OverallObject(JAbsent, JBool(FALSE)),
     OverallObject(JAbsent, JBool(TRUE)),
     OverallObject(JInt(99), JBool(FALSE)),
     OverallObject(JStr("5"), JStr("no")),
     OverallObject(JStr("many"), JAbsent),
     OverallObject(JNull, JAbsent),
     OverallObject(JFloat(19), JInt(0)),
     OverallObject(JInfinity, JAbsent),
     OverallObject(JAbsent, JNull),
     OverallObject(JAbsent, JList(<<>>))}

\* One category, one subcategory; every leaf payload.
CategoryLeafInputs ==
    {[rubric |-> <<RCategory(1, required, <<RSub(1)>>)>>,
      data |-> CategoryDoc(JList(<<JCat(JInt(1),
                  JList(<<JSub(JInt(1), p.score, p.evidence, p.rewrite)>>),
                  JAbsent, JAbsent)>>), NoOverall)] :
        required \in RequiredValues, p \in LeafPayloads}

\* What a judge asked for 0, 1 or 2 may answer with an int.
LegacyScores == {-5, 0, 1, 2, 7}

\* nc categories of ns subcategories; the leaves take their score in turn from
\* the pair scs, the judge answers every subcategory in rubric order, adds a
\* score and a verdict of its own to every category, and any `overall`.
LegacyGridRubric(nc, ns, required) ==
    [i \in 1..nc |-> RCategory(i, required, [k \in 1..ns |-> RSub(k)])]

LegacyGridDoc(nc, ns, scs, overall) ==
    CategoryDoc(JList([i \in 1..nc |-> JCat(JInt(i),
        JList([k \in 1..ns |-> JSub(JInt(k), JInt(Turn(scs, (i - 1) * ns + (k - 1))),
                                    FullEvidence, JStr("say this instead"))]),
        JInt(99), JBool(FALSE))]), overall)

CategoryGridInputs ==
    {[rubric |-> LegacyGridRubric(nc, ns, required),
      data |-> LegacyGridDoc(nc, ns, scs, overall)] :
        nc \in 1..MaxSections, ns \in 1..MaxCriteria, required \in RequiredValues,
        scs \in LegacyScores \X LegacyScores, overall \in OverallValues}

\* The criteria list of a judge category varies.
JudgeSubs ==
    {JSubOther}
    \cup {JSub(id, JInt(sc), NoEvidence, JAbsent) : id \in IdValues, sc \in 1..2}

SubsFields ==
    NotALists \cup {JAbsent} \cup {JList(xs) : xs \in SeqsUpTo(JudgeSubs, MaxJudgeItems)}

CategorySubsInputs ==
    {[rubric |-> <<RCategory(1, 1, [k \in 1..ns |-> RSub(k)])>>,
      data |-> CategoryDoc(JList(<<JCat(JInt(1), f, JAbsent, JAbsent)>>), NoOverall)] :
        ns \in 0..MaxCriteria, f \in SubsFields}

\* The categories list of the judge varies.
AnsweredSubs(sc) == JList(<<JSub(JInt(1), JInt(sc), NoEvidence, JAbsent)>>)

JudgeCategories ==
    {JCatOther, JCat(JInt(1), JNull, JAbsent, JAbsent)}
    \cup {JCat(id, AnsweredSubs(sc), JAbsent, JAbsent) : id \in IdValues, sc \in 1..2}

CategoriesFields ==
    NotALists \cup {JAbsent}
    \cup {JList(cs) : cs \in SeqsUpTo(JudgeCategories, MaxJudgeItems)}

CategoryListInputs ==
    {[rubric |-> [i \in 1..nc |-> RCategory(i, 1, <<RSub(1)>>)],
      data |-> CategoryDoc(f, NoOverall)] :
        nc \in 1..MaxSections, f \in CategoriesFields}

(***************************************************************************)
(* What the loaders read.  An activity row with what hangs on it: the      *)
(* rows of its rubric pack (entries and template criteria already in the   *)
(* order of their 'ordering' column, as order_by returns them) or its      *)
(* legacy categories.  A Decimal is [null, centis].                        *)
(***************************************************************************)

\* Most template criteria linked to one template.
MaxLinks == 2

\* None in a nullable DecimalField.
NullDecimal == [null |-> TRUE, centis |-> 0]

Decimal(centis) == [null |-> FALSE, centis |-> centis]

\* A RubricSection row (rubrics/models.py 165-201).
SectionRow(id, ordering) ==
    [id |-> id, name |-> "section", code |-> "S", ordering |-> ordering]

\* The RubricCriterion rows (rubrics/models.py 207-242): every criterion has
\* one section, one base weight and one is_required.
CriterionRows ==
    <<[id |-> 1, section |-> SectionRow(1, 1), weight |-> Decimal(100), is_required |-> TRUE],
      [id |-> 2, section |-> SectionRow(2, 0), weight |-> Decimal(50), is_required |-> FALSE],
      [id |-> 3, section |-> SectionRow(1, 1), weight |-> Decimal(150), is_required |-> FALSE]>>

\* weight_override of a RubricTemplateCriterion row (rubrics/models.py 451-457):
\* null, or any Decimal with two places; no validator excludes zero.
OverrideValues == {NullDecimal, Decimal(0), Decimal(35), Decimal(140)}

\* A RubricTemplateCriterion row.
TemplateCriterion(criterion, weight_override) ==
    [criterion |-> criterion, weight_override |-> weight_override]

\* The template_criteria of one template: unique_together ['template',
\* 'criterion'] (rubrics/models.py 466) lets a criterion in once.
TemplateCriteriaOf(overrides) ==
    {tcs \in SeqsUpTo({TemplateCriterion(CriterionRows[c], o) :
                          c \in DOMAIN CriterionRows, o \in overrides}, MaxLinks) :
        \A a, b \in 1..Len(tcs) : tcs[a].criterion.id = tcs[b].criterion.id => a = b}

\* A RubricTemplate row reached through a RubricPackEntry.
TemplateRow(id, status, track_type, template_criteria) ==
    [id |-> id, display_label |-> "template", internal_code |-> "T", status |-> status,
     track_type |-> track_type, framework |-> [code |-> "F", name |-> "framework"],
     template_criteria |-> template_criteria]

\* activity.rubric_pack is None.
NoPack == [null |-> TRUE, id |-> 0, name |-> "", entries |-> <<>>]

\* A RubricPack row; entries holds the template of each RubricPackEntry,
\* unique_together ['pack', 'template'] (rubrics/models.py 581).
PackRow(entries) == [null |-> FALSE, id |-> 1, name |-> "pack", entries |-> entries]

\* Activity.objects.get raised DoesNotExist.
NoActivity ==
    [exists |-> FALSE, rubric_pack |-> NoPack, exclude_generic_comms |-> FALSE,
     categories |-> <<>>]

ActivityRow(rubric_pack, exclude_generic_comms, categories) ==
    [exists |-> TRUE, rubric_pack |-> rubric_pack,
     exclude_generic_comms |-> exclude_generic_comms, categories |-> categories]

(***************************************************************************)
(* RubricPackEvaluator.load_activity_rubric (evaluators.py 465-573) and    *)
(* the weights of rubrics/models.py.                                       *)
(***************************************************************************)

\* bool(d) of a Decimal or None.
DecimalTruthy(d) == ~d.null /\ d.centis # 0

\* Line 548: tc.weight_override or tc.criterion.weight.
OverrideOrWeight(tc) ==
    IF DecimalTruthy(tc.weight_override) THEN tc.weight_override ELSE tc.criterion.weight

\* RubricTemplateCriterion.effective_weight (rubrics/models.py 471-476).
effective_weight(tc) ==
    IF ~tc.weight_override.null THEN tc.weight_override ELSE tc.criterion.weight

\* Lines 544-550: the leaf appended for one template criterion.
LoadedCriterion(tc) ==
    [criterion_id |-> tc.criterion.id, text |-> "criterion text",
     weight |-> FloatOfCentis(OverrideOrWeight(tc).centis),
     is_required |-> tc.criterion.is_required]

\* Lines 535-550: sections_map (a dict keeps insertion order) after one more
\* template criterion.
WithCriterion(sections_map, tc) ==
    IF \E i \in 1..Len(sections_map) : sections_map[i].section_id = tc.criterion.section.id
    THEN [i \in 1..Len(sections_map) |->
            IF sections_map[i].section_id = tc.criterion.section.id
            THEN [sections_map[i] EXCEPT !.criteria = Append(@, LoadedCriterion(tc))]
            ELSE sections_map[i]]
    ELSE Append(sections_map,
                [section_id |-> tc.criterion.section.id,
                 name |-> tc.criterion.section.name,
                 code |-> tc.criterion.section.code,
                 ordering |-> tc.criterion.section.ordering,
                 criteria |-> <<LoadedCriterion(tc)>>])

\* Lines 531-550: the loop over template_criteria from the n-th on.
RECURSIVE GroupBySection(_, _, _)
GroupBySection(template_criteria, n, sections_map) ==
    IF n > Len(template_criteria) THEN sections_map
    ELSE GroupBySection(template_criteria, n + 1,
                        WithCriterion(sections_map, template_criteria[n]))

\* Largest 'ordering' of a section row.
MaxOrdering == 1

\* Line 553: sorted(sections_map.values(), key=ordering) from ordering o on;
\* sorted is stable.
RECURSIVE SortedFrom(_, _)
SortedFrom(sections, o) ==
    IF o > MaxOrdering THEN <<>>
    ELSE SelectSeq(sections, LAMBDA s : s.ordering = o) \o SortedFrom(sections, o + 1)

\* Lines 554-555 and 557-567: the entry appended to templates_data.
LoadedTemplate(template, sorted_sections) ==
    [template_id |-> template.id, name |-> template.display_label,
     internal_code |-> template.internal_code, track_type |-> template.track_type,
     framework |-> template.framework,
     sections |-> [j \in 1..Len(sorted_sections) |->
                     [section_id |-> sorted_sections[j].section_id,
                      name |-> sorted_sections[j].name,
                      code |-> sorted_sections[j].code,
                      criteria |-> sorted_sections[j].criteria]]]

\* Lines 525-528: the templates that are not skipped.
Eligible(template, include_generic) ==
    /\ template.status = "published"
    /\ include_generic \/ template.track_type # "generic_comms"

\* Lines 523-567: the loop over the entries from the n-th on.
RECURSIVE LoadTemplates(_, _, _, _)
LoadTemplates(entries, n, include_generic, templates_data) ==
    IF n > Len(entries) THEN templates_data
    ELSE LoadTemplates(entries, n + 1, include_generic,
           IF Eligible(entries[n], include_generic)
           THEN Append(templates_data,
                       LoadedTemplate(entries[n],
                                      SortedFrom(GroupBySection(entries[n].template_criteria,
                                                                1, <<>>), 0)))
           ELSE templates_data)

\* {} of lines 506 and 509, and [] of lines 52 and 56.
Nothing == <<>>

\* RubricPackEvaluator.load_activity_rubric(activity_id)
PackLoadActivityRubric(activity) ==
    IF ~activity.exists THEN Nothing
    ELSE IF activity.rubric_pack.null THEN Nothing
    ELSE [pack_id |-> activity.rubric_pack.id,
          pack_name |-> activity.rubric_pack.name,
          templates |-> LoadTemplates(activity.rubric_pack.entries, 1,
                                      ~activity.exclude_generic_comms, <<>>)]

\* RubricPack.get_all_criteria(include_generic) (rubrics/models.py 508-535):
\* <<template id, criterion id, float(effective_weight)>> of every entry.
RECURSIVE get_all_criteria(_, _, _, _)
get_all_criteria(entries, n, include_generic, criteria) ==
    IF n > Len(entries) THEN criteria
    ELSE get_all_criteria(entries, n + 1, include_generic,
           IF /\ include_generic \/ entries[n].track_type # "generic_comms"
              /\ entries[n].status = "published"
           THEN criteria \o
                [k \in 1..Len(entries[n].template_criteria) |->
                   [template |-> entries[n].id,
                    criterion |-> entries[n].template_criteria[k].criterion.id,
                    weight |-> FloatOfCentis(
                        effective_weight(entries[n].template_criteria[k]).centis)]]
           ELSE criteria)

(***************************************************************************)
(* load_activity_rubric of the legacy evaluator (evaluators.py 19-78).     *)
(***************************************************************************)

\* A Category row with its SubCategory ids.
CategoryRow(id, total_required_to_pass, subcategories) ==
    [id |-> id, total_required_to_pass |-> total_required_to_pass,
     subcategories |-> subcategories]

CategoryLoadActivityRubric(activity) ==
    IF ~activity.exists THEN Nothing
    ELSE IF Len(activity.categories) = 0 THEN Nothing
    ELSE [i \in 1..Len(activity.categories) |->
            RCategory(activity.categories[i].id,
                      activity.categories[i].total_required_to_pass,
                      [k \in 1..Len(activity.categories[i].subcategories) |->
                         RSub(activity.categories[i].subcategories[k])])]

(***************************************************************************)
(* evaluate of both evaluators (evaluators.py 127-259 and 576-741): the    *)
(* rubric is loaded, an empty one is answered at once, otherwise one       *)
(* request goes to the judge and its answer is normalized.                 *)
(***************************************************************************)

\* What becomes of the one request of lines 228-249 and 704-724:
\* requests.post raises, raise_for_status raises, response.json() raises,
\* json.loads(content) raises, content holds the JSON object `data`, or
\* content holds JSON that is no object.
Replies ==
    {"transport_error", "http_error", "body_not_json", "content_not_json",
     "json_object", "json_not_object"}

\* A try block that ends after raise_for_status: parsing is left unprotected.
CaughtBeforeParsing(reply) == reply \in {"transport_error", "http_error"}

\* The replies that leave the try block through `except Exception`.
Caught(reply) == reply \notin {"json_object", "json_not_object"}

\* Lines 630 and 173: `not rubric`.
Falsy(rubric) == DOMAIN rubric = {}

\* Lines 631-643.
PackNothingToGrade ==
    [raised |-> FALSE, version |-> "2.0", pack |-> [null |-> TRUE], templates |-> <<>>,
     overall |-> [total_score |-> 0, max_score |-> 0, percentage |-> 0, passed |-> TRUE,
                  required_criteria_met |-> TRUE]]

\* Lines 726-739.
PackJudgeFailed(rubric) ==
    [raised |-> FALSE, version |-> "2.0",
     pack |-> [id |-> rubric.pack_id, name |-> rubric.pack_name], templates |-> <<>>,
     overall |-> [total_score |-> 0, max_score |-> 0, percentage |-> 0, passed |-> FALSE,
                  required_criteria_met |-> FALSE]]

\* A test of line 630 that answers only a missing rubric at once.
ShortCircuitsWhenMissing(rubric) == Falsy(rubric)

\* Line 630: the rubric is answered without the judge.
PackShortCircuits(rubric) == Falsy(rubric) \/ Len(rubric.templates) = 0

\* RubricPackEvaluator.evaluate after the rubric is loaded: what it returns,
\* or the fact that an exception left it (data.get of line 763 on a value
\* that is no dict, or the normalizer of line 741, outside the try block).
PackEvaluate(rubric, reply, data) ==
    IF PackShortCircuits(rubric) THEN PackNothingToGrade
    ELSE IF Caught(reply) THEN PackJudgeFailed(rubric)
    ELSE IF reply = "json_object" THEN PackNormalize(data, rubric)
    ELSE [raised |-> TRUE]

\* Lines 174-177.
CategoryNothingToGrade ==
    [raised |-> FALSE, categories |-> <<>>, overall |-> [total_score |-> 0, passed |-> TRUE]]

\* Lines 253-256.
CategoryJudgeFailed ==
    [raised |-> FALSE, categories |-> <<>>, overall |-> [total_score |-> 0, passed |-> FALSE]]

\* CategoryRubricEvaluator.evaluate after the rubric is loaded.
CategoryEvaluate(rubric, reply, data) ==
    IF Falsy(rubric) THEN CategoryNothingToGrade
    ELSE IF Caught(reply) THEN CategoryJudgeFailed
    ELSE IF reply = "json_object" THEN CategoryNormalize(data, rubric)
    ELSE [raised |-> TRUE]

(***************************************************************************)
(* Activities an evaluation is asked about, and what the judge answers.    *)
(***************************************************************************)

\* One published template with every list of links and every override.
WeightActivities ==
    {ActivityRow(PackRow(<<TemplateRow(1, "published", "clinical_content", tcs)>>),
                 FALSE, <<>>) :
        tcs \in TemplateCriteriaOf(OverrideValues)}

\* status and track_type of a template (rubrics/models.py 350-359).
TemplateKinds == {"published", "draft"} \X {"generic_comms", "clinical_content"}

\* A pack of two templates without overrides, each of every kind.
PackActivities ==
    {ActivityRow(PackRow(<<TemplateRow(1, k1[1], k1[2], tcs1),
                           TemplateRow(2, k2[1], k2[2], tcs2)>>), exclude, <<>>) :
        k1 \in TemplateKinds, k2 \in TemplateKinds,
        tcs1 \in TemplateCriteriaOf({NullDecimal}),
        tcs2 \in TemplateCriteriaOf({NullDecimal}), exclude \in BOOLEAN}

\* The activities on which every reply of the judge is tried.
ReplyActivities ==
    {NoActivity,
     ActivityRow(NoPack, FALSE, <<>>),
     ActivityRow(PackRow(<<>>), FALSE, <<>>),
     ActivityRow(PackRow(<<TemplateRow(1, "draft", "clinical_content",
                             <<TemplateCriterion(CriterionRows[1], NullDecimal)>>)>>),
                 FALSE, <<>>),
     ActivityRow(PackRow(<<TemplateRow(1, "published", "generic_comms",
                             <<TemplateCriterion(CriterionRows[1], NullDecimal)>>)>>),
                 TRUE, <<>>),
     ActivityRow(PackRow(<<TemplateRow(1, "published", "clinical_content", <<>>)>>),
                 FALSE, <<>>),
     ActivityRow(PackRow(<<TemplateRow(1, "published", "clinical_content",
                             <<TemplateCriterion(CriterionRows[1], NullDecimal),
                               TemplateCriterion(CriterionRows[2], Decimal(140))>>),
                           TemplateRow(2, "published", "generic_comms",
                             <<TemplateCriterion(CriterionRows[3], NullDecimal)>>)>>),
                 FALSE, <<>>)}

\* The judge answers criterion 1 of section 1 of template 1 with `score`.
PackAnswer(score) ==
    PackDoc(JList(<<JTpl(JInt(1),
                JList(<<JSec(JInt(1),
                    JList(<<JCrit(JInt(1), score, FullEvidence, JStr("say this instead"))>>),
                    JAbsent)>>), JAbsent)>>), NoOverall)

\* The JSON objects the judge's content holds.
PackDocs == {PackAnswer(JInt(2)), PackAnswer(JInt(0)), PackDoc(JAbsent, NoOverall)}

\* Legacy activities: up to MaxSections categories of up to MaxCriteria
\* subcategories.
CategoryActivities ==
    {NoActivity} \cup
    {ActivityRow(NoPack, FALSE, categories) :
        categories \in
          UNION {{[i \in 1..n |-> CategoryRow(i, f[i][1], [k \in 1..f[i][2] |-> k])] :
                    f \in [1..n -> RequiredValues \X (0..MaxCriteria)]} :
                   n \in 0..MaxSections}}

\* The judge answers subcategory 1 of category 1 with `score`.
CategoryAnswer(score) ==
    CategoryDoc(JList(<<JCat(JInt(1),
                    JList(<<JSub(JInt(1), score, FullEvidence, JStr("say this instead"))>>),
                    JAbsent, JAbsent)>>), NoOverall)

CategoryDocs ==
    {CategoryAnswer(JInt(2)), CategoryAnswer(JInt(0)), CategoryDoc(JAbsent, NoOverall)}

\* The content of a reply that is no JSON object, and of no reply at all.
NoDocument == [t |-> "absent"]

(***************************************************************************)
(* build_transcript of CategoryRubricEvaluator (evaluators.py 91-124) and  *)
(* of SimpleRubricEvaluator (341-358).  A str is the sequence of its       *)
(* characters; a value that may be None is [none, s].                      *)
(***************************************************************************)

PyStr(s) == [none |-> FALSE, s |-> s]

PyNone == [none |-> TRUE, s |-> <<>>]

\* a or b, for values that are None or a str.
Or(a, b) == IF ~a.none /\ Len(a.s) > 0 THEN a ELSE b

\* The characters str.strip() removes.
Whitespace == {" ", "\n", "\t"}

RECURSIVE LStrip(_)
LStrip(s) == IF Len(s) > 0 /\ s[1] \in Whitespace THEN LStrip(Tail(s)) ELSE s

RECURSIVE RStrip(_)
RStrip(s) ==
    IF Len(s) > 0 /\ s[Len(s)] \in Whitespace THEN RStrip(SubSeq(s, 1, Len(s) - 1)) ELSE s

\* s.strip()
Strip(s) == RStrip(LStrip(s))

\* s[start:] for any integer start: a negative start counts from the end,
\* and a start out of range is clamped.
SliceFrom(s, start) ==
    LET first == IF start < 0
                 THEN (IF Len(s) + start < 0 THEN 0 ELSE Len(s) + start)
                 ELSE (IF start > Len(s) THEN Len(s) ELSE start)
    IN  SubSeq(s, first + 1, Len(s))

\* s[-n:]; -0 is 0, the start of s.
Last(s, n) == SliceFrom(s, -n)

DigitChars == <<"0", "1", "2", "3", "4", "5", "6", "7", "8", "9">>

\* str(n) of an int n >= 0.
RECURSIVE Str(_)
Str(n) ==
    IF n < 10 THEN <<DigitChars[n + 1]>>
    ELSE Str(n \div 10) \o <<DigitChars[(n % 10) + 1]>>

\* Lines 111 and 348: role.
Role(msg) == Strip(Or(msg.role, PyStr(<<>>)).s)

\* Line 112: who.
Who(msg) ==
    IF Role(msg) = <<"u", "s", "e", "r">> THEN <<"D", "O", "C", "T", "O", "R">>
    ELSE <<"P", "A", "T", "I", "E", "N", "T">>

\* Lines 113 and 349: text.
Text(msg) == Strip(Or(Or(msg.message, msg.content), PyStr(<<>>)).s)

\* Line 116: f"[{idx}] {who}: {text}"
IndexedLine(idx, msg) ==
    <<"[">> \o Str(idx) \o <<"]", " ">> \o Who(msg) \o <<":", " ">> \o Text(msg)

\* Line 351: f"{role}: {text}"
SimpleLine(msg) == Role(msg) \o <<":", " ">> \o Text(msg)

\* Lines 110-116 and 347-351: the loop from position idx (zero-based) on.
RECURSIVE Lines(_, _, _, _)
Lines(indexed, recent_messages, idx, lines) ==
    IF idx >= Len(recent_messages) THEN lines
    ELSE Lines(indexed, recent_messages, idx + 1,
               IF Len(Text(recent_messages[idx + 1])) > 0
               THEN Append(lines, IF indexed THEN IndexedLine(idx, recent_messages[idx + 1])
                                             ELSE SimpleLine(recent_messages[idx + 1]))
               ELSE lines)

\* "\n".join(lines) from the n-th line on.
RECURSIVE Join(_, _, _)
Join(lines, n, joined) ==
    IF n > Len(lines) THEN joined
    ELSE Join(lines, n + 1, IF n = 1 THEN lines[1] ELSE joined \o <<"\n">> \o lines[n])

\* Lines 121-122 and 355-356.
Truncated(transcript, max_chars) ==
    IF Len(transcript) > max_chars THEN Last(transcript, max_chars) ELSE transcript

\* build_transcript(messages, max_turns, max_chars) of the indexed
\* (CategoryRubricEvaluator) or the simple (SimpleRubricEvaluator) builder.
BuildTranscript(indexed, messages, max_turns, max_chars) ==
    Truncated(Join(Lines(indexed, Last(messages, max_turns), 0, <<>>), 1, <<>>), max_chars)

(***************************************************************************)
(* Conversations.                                                          *)
(***************************************************************************)

\* Longest conversation of the window family.
MaxMessages == 3

Message(role, message, content) == [role |-> role, message |-> message, content |-> content]

UserRole == PyStr(<<"u", "s", "e", "r">>)

AssistantRole == PyStr(<<"a", "s", "s", "i", "s", "t", "a", "n", "t">>)

\* Messages that differ in speaker and text, one of them blank.
WindowMessages ==
    {Message(r, PyStr(t), PyNone) :
        r \in {UserRole, AssistantRole}, t \in {<<"a">>, <<"b", "b">>, <<" ">>}}

\* Every way a message may hold its role and its text.
FieldMessages ==
    {Message(r, m, c) :
        r \in {UserRole, AssistantRole, PyNone, PyStr(<<" ", "u", "s", "e", "r", "\n">>),
               PyStr(<<"U", "s", "e", "r">>)},
        m \in {PyNone, PyStr(<<>>), PyStr(<<" ">>), PyStr(<<"a">>),
               PyStr(<<" ", "a", " ", "b", "\n">>)},
        c \in {PyNone, PyStr(<<"c">>)}}

\* `turns` messages of alternating speakers.
Conversation(turns) ==
    [i \in 1..turns |->
       Message(IF i % 2 = 1 THEN UserRole ELSE AssistantRole, PyStr(<<"a">>), PyNone)]

\* The arguments of one call: the window family (every max_turns around the
\* length), the field family, the character family (every max_chars around
\* the length of the text) and the long conversations with the defaults.
TranscriptInputs ==
    {[messages |-> ms, max_turns |-> mt, max_chars |-> 12000] :
        ms \in SeqsUpTo(WindowMessages, MaxMessages), mt \in -1..(MaxMessages + 1)}
    \cup {[messages |-> <<m>>, max_turns |-> 40, max_chars |-> 12000] : m \in FieldMessages}
    \cup {[messages |-> Conversation(n), max_turns |-> 40, max_chars |-> mc] :
            n \in 0..2, mc \in -1..30}
    \cup {[messages |-> Conversation(n), max_turns |-> mt, max_chars |-> mc] :
            n \in {12, 50}, mt \in {30, 40}, mc \in {8000, 12000}}

(***************************************************************************)
(* SentenceDetector (utils.py 9-224): the buffer is a str, an index is an  *)
(* index of Python (the first character has index 0), and the letters and  *)
(* digits are those of ASCII.                                              *)
(***************************************************************************)

\* buffer[index]
At(buffer, index) == buffer[index + 1]

\* buffer[:index]
Before(buffer, index) == SubSeq(buffer, 1, index)

\* Lines 19-26.
ABBREVIATIONS ==
    {<<"d", "r">>, <<"m", "r">>, <<"m", "r", "s">>, <<"m", "s">>,
     <<"p", "r", "o", "f">>, <<"s", "r">>, <<"j", "r">>, <<"s", "t">>,
     <<"a", "v", "e">>, <<"b", "l", "v", "d">>, <<"e", "t", "c">>,
     <<"v", "s">>, <<"i", "n", "c">>, <<"l", "t", "d">>, <<"c", "o">>,
     <<"c", "o", "r", "p">>, <<"d", "e", "p", "t">>, <<"e", "s", "t">>,
     <<"a", "p", "p", "r", "o", "x">>, <<"f", "i", "g">>, <<"n", "o">>,
     <<"v", "o", "l">>, <<"p", "p">>, <<"e", "d">>, <<"r", "e", "v">>,
     <<"g", "e", "n">>, <<"c", "o", "l">>, <<"l", "t">>, <<"s", "g", "t">>,
     <<"c", "a", "p", "t">>, <<"m", "a", "j">>, <<"j", "a", "n">>,
     <<"f", "e", "b">>, <<"m", "a", "r">>, <<"a", "p", "r">>,
     <<"j", "u", "n">>, <<"j", "u", "l">>, <<"a", "u", "g">>,
     <<"s", "e", "p">>, <<"s", "e", "p", "t">>, <<"o", "c", "t">>,
     <<"n", "o", "v">>, <<"d", "e", "c">>, <<"m", "o", "n">>,
     <<"t", "u", "e">>, <<"w", "e", "d">>, <<"t", "h", "u">>,
     <<"f", "r", "i">>, <<"s", "a", "t">>, <<"s", "u", "n">>,
     <<"e", ".", "g">>, <<"i", ".", "e">>, <<"a", ".", "m">>,
     <<"p", ".", "m">>, <<"b", ".", "c">>, <<"a", ".", "d">>}

\* Line 28.
SENTENCE_ENDINGS == {".", "!", "?"}

UpperLetters ==
    <<"A", "B", "C", "D", "E", "F", "G", "H", "I", "J", "K", "L", "M",
      "N", "O", "P", "Q", "R", "S", "T", "U", "V", "W", "X", "Y", "Z">>

LowerLetters ==
    <<"a", "b", "c", "d", "e", "f", "g", "h", "i", "j", "k", "l", "m",
      "n", "o", "p", "q", "r", "s", "t", "u", "v", "w", "x", "y", "z">>

\* c.isdigit()
IsDigit(c) == \E i \in 1..Len(DigitChars) : DigitChars[i] = c

\* s.isalpha(): s is not empty and holds letters only.
IsAlpha(s) ==
    /\ Len(s) > 0
    /\ \A i \in 1..Len(s) :
          \E k \in 1..Len(LowerLetters) : s[i] = LowerLetters[k] \/ s[i] = UpperLetters[k]

\* s.lower()
Lower(s) ==
    [i \in 1..Len(s) |->
        IF \E k \in 1..Len(UpperLetters) : UpperLetters[k] = s[i]
        THEN LowerLetters[CHOOSE k \in 1..Len(UpperLetters) : UpperLetters[k] = s[i]]
        ELSE s[i]]

\* s.rstrip('.')
RECURSIVE RStripPeriods(_)
RStripPeriods(s) ==
    IF Len(s) > 0 /\ s[Len(s)] = "." THEN RStripPeriods(SubSeq(s, 1, Len(s) - 1)) ELSE s

\* s.split()[-1] where s.split() is not empty: the last run of characters
\* that are not whitespace.
RECURSIVE LastRun(_)
LastRun(s) ==
    IF Len(s) = 0 \/ s[Len(s)] \in Whitespace THEN <<>>
    ELSE Append(LastRun(SubSeq(s, 1, Len(s) - 1)), s[Len(s)])

\* The indices where pattern occurs in s.
Occurrences(s, pattern) ==
    {p \in 0..(Len(s) - Len(pattern)) : SubSeq(s, p + 1, p + Len(pattern)) = pattern}

\* s.split(pattern)[-1] where pattern occurs in s: what follows its last
\* occurrence (no pattern of line 170 overlaps itself).
AfterLast(s, pattern) ==
    LET last == CHOOSE p \in Occurrences(s, pattern) :
                    \A o \in Occurrences(s, pattern) : o <= p
    IN  SubSeq(s, last + Len(pattern) + 1, Len(s))

\* Line 170.
url_patterns ==
    {<<"h", "t", "t", "p", ":", "/", "/">>, <<"h", "t", "t", "p", "s", ":", "/", "/">>,
     <<"w", "w", "w", ".">>, <<"f", "t", "p", ":", "/", "/">>}

\* Lines 167-176.
IsUrlContext(before) ==
    \E pattern \in url_patterns :
        /\ Occurrences(Lower(before), pattern) # {}
        /\ \A i \in 1..Len(AfterLast(Lower(before), pattern)) :
              AfterLast(Lower(before), pattern)[i] # " "

\* Lines 178-188.
IsDecimalContext(buffer, index) ==
    /\ index > 0
    /\ IsDigit(At(buffer, index - 1))
    /\ index + 1 < Len(buffer)
    /\ IsDigit(At(buffer, index + 1))

\* Lines 190-198.
IsEllipsisContext(buffer, index) ==
    \/ index >= 2 /\ At(buffer, index - 1) = "." /\ At(buffer, index - 2) = "."
    \/ index + 1 < Len(buffer) /\ At(buffer, index + 1) = "."

\* An abbreviation only when the word is in the set.
IsAbbreviationOfTheSet(last_word) == last_word \in ABBREVIATIONS

\* Lines 208-214, once before.split() is known not to be empty.
IsAbbreviation(last_word) ==
    \/ last_word \in ABBREVIATIONS
    \/ Len(last_word) <= 2 /\ IsAlpha(last_word)

\* Lines 200-214.
IsAbbreviationContext(before) ==
    IF Len(RStrip(before)) = 0 THEN FALSE
    ELSE IsAbbreviation(RStripPeriods(Lower(LastRun(RStrip(before)))))

\* Lines 138-165.
IsPeriodSentenceEnd(buffer, index) ==
    IF index = 0 THEN FALSE
    ELSE IF IsUrlContext(Before(buffer, index)) THEN FALSE
    ELSE IF IsDecimalContext(buffer, index) THEN FALSE
    ELSE IF IsEllipsisContext(buffer, index) THEN FALSE
    ELSE IF IsAbbreviationContext(Before(buffer, index)) THEN FALSE
    ELSE TRUE

\* Lines 120-136: what follows the punctuation.
FollowedByEnd(buffer, index) ==
    IF At(buffer, index + 1) = " " THEN TRUE
    ELSE IF At(buffer, index + 1) \in {"\"", "'", ")"}
    THEN index + 2 < Len(buffer) /\ At(buffer, index + 2) = " "
    ELSE FALSE

\* A sentence end wherever a character follows.
SentenceEndWheneverFollowed(buffer, index) == index < Len(buffer) - 1

\* Lines 96-136.
IsValidSentenceEnd(buffer, index) ==
    IF index >= Len(buffer) - 1 THEN FALSE
    ELSE IF At(buffer, index) = "." /\ ~IsPeriodSentenceEnd(buffer, index) THEN FALSE
    ELSE IF At(buffer, index) \in {"!", "?"} /\ At(buffer, index + 1) \in {"!", "?"}
    THEN FALSE
    ELSE FollowedByEnd(buffer, index)

\* None, for an index.
NoBoundary == 0 - 1

\* Lines 77-94, from index i on.
RECURSIVE FindSentenceBoundary(_, _)
FindSentenceBoundary(buffer, i) ==
    IF i >= Len(buffer) THEN NoBoundary
    ELSE IF At(buffer, i) \in SENTENCE_ENDINGS /\ IsValidSentenceEnd(buffer, i) THEN i
    ELSE FindSentenceBoundary(buffer, i + 1)

\* The sentence without the punctuation that ends it.
SentenceBeforeBoundary(buffer, boundary) == Strip(SubSeq(buffer, 1, boundary))

\* Line 69: the sentence cut at boundary.
Sentence(buffer, boundary) == Strip(SubSeq(buffer, 1, boundary + 1))

\* Line 70: the buffer left after the cut.
Rest(buffer, boundary) == LStrip(SubSeq(buffer, boundary + 2, Len(buffer)))

\* Lines 60-75, with the loop of line 64 as a recursion.  boundary is
\* _find_sentence_boundary() of buffer; consumed is the number of characters
\* of the stream that are no longer in buffer, and accepted collects the
\* positions in the stream of the boundaries found.
RECURSIVE ExtractSentences(_, _, _, _, _)
ExtractSentences(buffer, boundary, sentences, accepted, consumed) ==
    IF boundary = NoBoundary
    THEN [buffer |-> buffer, sentences |-> sentences, accepted |-> accepted]
    ELSE ExtractSentences(
             Rest(buffer, boundary),
             FindSentenceBoundary(Rest(buffer, boundary), 0),
             IF Len(Sentence(buffer, boundary)) > 0
             THEN Append(sentences, Sentence(buffer, boundary))
             ELSE sentences,
             accepted \cup {consumed + boundary},
             consumed + Len(buffer) - Len(Rest(buffer, boundary)))

\* Lines 34-45: add_token on a detector whose buffer is given, after
\* consumed characters of the stream.
AddTokenTo(buffer, token, consumed) ==
    ExtractSentences(buffer \o token, FindSentenceBoundary(buffer \o token, 0),
                     <<>>, {}, consumed)

\* Lines 47-58: flush returns [returned, buffer].
FlushOf(buffer) ==
    IF Len(Strip(buffer)) > 0
    THEN [returned |-> PyStr(Strip(buffer)), buffer |-> <<>>]
    ELSE [returned |-> PyNone, buffer |-> buffer]

\* Lines 227-246: split_into_sentences(text).
SplitIntoSentences(text) ==
    IF FlushOf(AddTokenTo(<<>>, text, 0).buffer).returned.none
    THEN AddTokenTo(<<>>, text, 0).sentences
    ELSE Append(AddTokenTo(<<>>, text, 0).sentences,
                FlushOf(AddTokenTo(<<>>, text, 0).buffer).returned.s)

\* The streamed texts.  A token holds at most MaxToken characters, or all
\* that is left of the text (split_into_sentences passes the whole text as
\* one token, line 240).
MaxScript == 5

MaxToken == 3

DetectorAlphabet == {".", " ", "3", "m", "a", "r"}

\* Texts with capitals, quotes, other punctuation, a newline and a URL.
CuratedScripts ==
    {<<"P", "i", " ", "i", "s", " ", "3", ".", "1", "4", " ", "t", "o", "d", "a", "y", ".">>,
     <<"I", " ", "s", "a", "w", " ", "D", "r", ".", " ", "S", "m", "i", "t", "h", " ",
       "t", "o", "d", "a", "y", ".">>,
     <<"W", "a", "i", "t", ".", ".", " ", "N", "e", "x", "t">>,
     <<"W", "e", "l", "l", ".", ".", ".", " ", "o", "k", ".", " ", "B">>,
     <<"H", "i", "!", " ", "G", "o", "?", " ", "\"", "N", "o", "w", ".", "\"", " ", "x">>,
     <<"S", "e", "e", " ", "w", "w", "w", ".", "a", ".", "c", "o", " ", "n", "o", "w", ".",
       " ", "O", "k">>,
     <<"W", "h", "a", "t", "?", "!", " ", "O", "n", "e", ".", "\n", "T", "w", "o", ".", " ">>,
     <<"I", "t", " ", "i", "s", " ", "5", " ", "P", ".", "M", ".", " ", "n", "o", "w", ".",
       " ", "B", "y", "e">>,
     <<"H", "i", "!", " ", " ", ".", " ", "x">>}

Scripts == SeqsUpTo(DetectorAlphabet, MaxScript) \cup CuratedScripts

\* Tokens passed to a detector that was flushed.
LaterTokens == {<<".", " ", "x">>, <<"a", "3", ".", " ", "b">>}

\* The lengths the next token may have when remaining characters are left.
TokenLengths(remaining) == {n \in 1..remaining : n <= MaxToken \/ n = remaining}

(***************************************************************************)
(* ConversationMessageStreamView.post.event_stream (views.py 425-509):     *)
(* the synthesis tasks started while a response is streamed.               *)
(***************************************************************************)

\* Lines 448-452 and 489-493: the arguments of one pregenerate_tts_chunk
\* thread.
Task(pending_id, index, sentence) ==
    [pending_id |-> pending_id, chunk_index |-> index, sentence |-> sentence]

\* The threads after one is started for each of the sentences without
\* chunk_index being advanced.
StartedAtOneIndex(threads, started, pending_id, index) ==
    threads \o [k \in 1..Len(started) |-> Task(pending_id, index, started[k])]

\* Lines 488-499: the threads after one is started for each of the sentences
\* add_token returned, chunk_index being index before the first.
Started(threads, started, pending_id, index) ==
    threads \o [k \in 1..Len(started) |-> Task(pending_id, index + k - 1, started[k])]

\* Lines 446-457: the sentences to start a thread for after flush returned.
FinalSentences(returned) == IF ~returned.none /\ Len(returned.s) > 0 THEN <<returned.s>> ELSE <<>>

\* The pending ids uuid4 may draw (line 432).
PendingIds == {"p1", "p2"}

\* The texts streamed to event_stream.
MaxStreamed == 4

StreamScripts == SeqsUpTo(DetectorAlphabet, MaxStreamed) \cup CuratedScripts

(***************************************************************************)
(* TTSAudioCache (views.py 50-136).  _cache is a function from the keys    *)
(* present to [audio, timestamp], _chunk_ready a function from the message *)
(* ids present to the set of their chunk indices (the values of the inner  *)
(* dict are all True).  A key is a str; the clock counts ticks and the TTL *)
(* is Ttl ticks.  bytes are [none, s] like a str, b'' being the empty s.   *)
(***************************************************************************)

\* Line 140: ttl_seconds, in ticks of the clock.
Ttl == 1

\* Line 75: f"{message_id}:{chunk_index}".
ChunkKey(message_id, index) == message_id \o <<":">> \o Str(index)

\* ':' in key
HasColon(key) == \E p \in 1..Len(key) : key[p] = ":"

\* The position of the last ':' of key.
LastColon(key) == CHOOSE p \in 1..Len(key) : key[p] = ":" /\ \A q \in (p + 1)..Len(key) : key[q] # ":"

\* Line 130: key.rsplit(':', 1), for a key with a ':'.
RSplit(key) ==
    [msg_id |-> SubSeq(key, 1, LastColon(key) - 1),
     chunk_idx |-> SubSeq(key, LastColon(key) + 1, Len(key))]

\* int(s) of a str of decimal digits.
RECURSIVE ParseInt(_)
ParseInt(s) ==
    IF Len(s) = 0 THEN 0
    ELSE 10 * ParseInt(SubSeq(s, 1, Len(s) - 1))
         + ((CHOOSE d \in 1..Len(DigitChars) : DigitChars[d] = s[Len(s)]) - 1)

\* {}
EmptyDictionary == [k \in {} |-> 0]

\* d[key] = value
DictPut(d, key, value) == [k \in DOMAIN d \cup {key} |-> IF k = key THEN value ELSE d[k]]

\* del d[key] for every key of keys
DictDel(d, keys) == [k \in DOMAIN d \ keys |-> d[k]]

\* Lines 68-71: set(key, audio_data) at time now.
CacheSet(cache, key, audio_data, now) ==
    DictPut(cache, key, [audio |-> audio_data, timestamp |-> now])

\* Lines 73-81: set_chunk returns nothing; [cache, chunk_ready] after it.
set_chunk(cache, chunk_ready, message_id, index, audio_data, now) ==
    [cache |-> CacheSet(cache, ChunkKey(message_id, index), audio_data, now),
     chunk_ready |->
        DictPut(chunk_ready, message_id,
                (IF message_id \in DOMAIN chunk_ready THEN chunk_ready[message_id] ELSE {})
                    \cup {index})]

\* Line 91: the entry of key is older than the TTL.
Expired(cache, key, now) == now - cache[key].timestamp > Ttl

\* Lines 83-97: get(key) at time now: [returned, cache].
CacheGet(cache, key, now) ==
    IF key \notin DOMAIN cache THEN [returned |-> PyNone, cache |-> cache]
    ELSE IF Expired(cache, key, now)
    THEN [returned |-> PyNone, cache |-> DictDel(cache, {key})]
    ELSE [returned |-> PyStr(cache[key].audio), cache |-> cache]

\* Lines 99-102: get_chunk(message_id, chunk_index).
get_chunk(cache, message_id, index, now) == CacheGet(cache, ChunkKey(message_id, index), now)

\* Lines 104-110.
is_chunk_ready(chunk_ready, message_id, index) ==
    message_id \in DOMAIN chunk_ready /\ index \in chunk_ready[message_id]

\* Lines 112-117.
get_chunk_count(chunk_ready, message_id) ==
    IF message_id \notin DOMAIN chunk_ready THEN 0 ELSE Cardinality(chunk_ready[message_id])

\* Lines 123-126: the keys cleanup_expired finds expired.
ExpiredKeys(cache, now) == {key \in DOMAIN cache : Expired(cache, key, now)}

\* Lines 129-132: the chunk indices popped for message id m.
Popped(expired, m) ==
    {ParseInt(RSplit(key).chunk_idx) : key \in {k \in expired : HasColon(k) /\ RSplit(k).msg_id = m}}

\* Lines 119-136: cleanup_expired() at time now: [cache, chunk_ready].  A
\* message id whose inner dict becomes empty is deleted (lines 133-134).
cleanup_expired(cache, chunk_ready, now) ==
    [cache |-> DictDel(cache, ExpiredKeys(cache, now)),
     chunk_ready |->
        [m \in {x \in DOMAIN chunk_ready :
                   chunk_ready[x] \ Popped(ExpiredKeys(cache, now), x) # {}}
            |-> chunk_ready[m] \ Popped(ExpiredKeys(cache, now), m)]]

\* The message ids, chunk indices and audio of the model.
MessageIds == {<<"a">>, <<"b">>}

MaxChunk == 1

MaxTime == 3

\* Some audio, and b'' with it.
StoredAudio == <<"m", "p", "3">>

AudioValues == {<<>>, StoredAudio}

\* The keys of whole messages (line 166) and of chunks (line 75).
CacheKeys == MessageIds \cup {ChunkKey(m, i) : m \in MessageIds, i \in 0..MaxChunk}

\* Line 714: the number of polls after the first, 30 in the program.
MaxRetries == 2

(***************************************************************************)
(* rubric_assessment_api of the Flask application                          *)
(* (flask_api/controllers/openai_controller.py 381-540), from which        *)
(* CategoryRubricEvaluator was migrated.  A response is [status, body].    *)
(***************************************************************************)

\* Lines 538-540: any exception that is no requests.HTTPError.
FlaskInternalError == [status |-> 500, body |-> [message |-> "Internal server error"]]

\* Lines 533-537: raise_for_status raised; the status is the judge's, or 500
\* when the body of the judge's answer is no JSON.
FlaskOpenAIError(status_code) == [status |-> status_code, body |-> [message |-> "OpenAI error"]]

\* Line 404.
FlaskNothingToGrade ==
    [status |-> 200,
     body |-> [raised |-> FALSE, categories |-> <<>>,
               overall |-> [total_score |-> 0, passed |-> TRUE]]]

\* Line 485: the payload that replaces a content json.loads rejects.
FlaskFallback == CategoryDoc(JList(<<>>), OverallObject(JInt(0), JBool(FALSE)))

\* Line 525: data.get("overall") or {}.  None becomes {}; a dict stays (an
\* empty one is replaced by its equal); a value of another type is taken to
\* be truthy.
FlaskOverall(overall) ==
    IF overall.t \in {"absent", "null"} THEN OverallObject(JAbsent, JAbsent) ELSE overall

\* Lines 487-531: the normalisation written into the handler.  The loop is
\* that of _normalize_response but for line 513, `required_to_pass or 0`,
\* which leaves the int of a Category row as it is.  An exception goes to
\* line 538.
FlaskNormalise(data, rubric) ==
    IF ByCatRaises(data) THEN FlaskInternalError
    ELSE LET by_cat == ByCat(Items(data.categories), Len(Items(data.categories)))
             steps == [i \in 1..Len(rubric) |-> CategoryStep(rubric[i], by_cat)]
             out_categories == [i \in 1..Len(rubric) |-> steps[i].out]
             total == SumInts([i \in 1..Len(rubric) |-> out_categories[i].score], Len(rubric))
             overall == FlaskOverall(data.overall)
         IN  IF (\E i \in 1..Len(rubric) : steps[i].raises) \/ OverallRaises(overall)
             THEN FlaskInternalError
             ELSE [status |-> 200,
                   body |-> [raised |-> FALSE,
                             categories |-> out_categories,
                             overall |-> OverallOut(overall, total, out_categories)]]

\* The status codes raise_for_status raises on, as far as the model goes.
JudgeStatusCodes == {401, 429, 500}

\* rubric_assessment_api after the rubric is loaded (lines 402-540), the
\* judge answering an HTTP error with status_code.
rubric_assessment_api(rubric, reply, data, status_code) ==
    IF Falsy(rubric) THEN FlaskNothingToGrade
    ELSE IF reply = "http_error" THEN FlaskOpenAIError(status_code)
    ELSE IF reply \in {"transport_error", "body_not_json", "json_not_object"}
    THEN FlaskInternalError
    ELSE IF reply = "content_not_json" THEN FlaskNormalise(FlaskFallback, rubric)
    ELSE FlaskNormalise(data, rubric)

(***************************************************************************)
(* The state machine: one evaluation holds a resolved rubric and the       *)
(* judge's document, and calls the normalizer of its mode on them.         *)
(***************************************************************************)
VARIABLES
    mode,      \* "pack" (RubricPackEvaluator) or "category" (CategoryRubricEvaluator)
    rubric,    \* the resolved rubric
    data,      \* the judge's JSON document
    calls,     \* number of calls made of the function under study
    result,    \* what the first call returned
    again,     \* what the second call on the same arguments returned
    activity,  \* the rows evaluate loads the rubric from
    reply,     \* what becomes of the request to the judge
    posts,     \* number of requests sent to the judge
    messages,  \* build_transcript: the conversation
    max_turns, \* build_transcript: its max_turns argument
    max_chars, \* build_transcript: its max_chars argument
    transcript, \* build_transcript: the str returned
    script,    \* SentenceDetector: the whole text of the stream
    fed,       \* the number of its characters passed to add_token so far
    buffer,    \* self._buffer
    sentences, \* the sentences add_token has returned so far, in order
    accepted,  \* the positions in script of the boundaries found so far
    flushed,   \* whether flush was called, the buffer it found and what it returned
    reflushed, \* the same for a flush called again right after it
    later,     \* what add_token returned for a token passed after the flush
    pending_message_id, \* event_stream: the pending id drawn at line 432
    chunk_index, \* event_stream: its local chunk_index
    tts_threads, \* the arguments of the pregenerate_tts_chunk threads started, in order
    announced, \* the chunk_index of the audio_chunk_ready events sent, in order
    completion, \* the completion event, once sent
    stream,    \* "open", "completed" or "failed"
    cache,     \* TTSAudioCache._cache
    chunk_ready, \* TTSAudioCache._chunk_ready
    now,       \* time.time(), in ticks
    fetch,     \* AudioChunkStreamView.get: where one request is, and its answer
    answer,    \* the last call of the cache and what it returned
    legacy     \* what rubric_assessment_api of the Flask application answered

scoreVars == <<mode, rubric, data, calls, result, again>>

evaluateVars == <<activity, reply, posts>>

transcriptVars == <<messages, max_turns, max_chars, transcript>>

detectorVars == <<script, fed, buffer, sentences, accepted, flushed, reflushed, later>>

streamVars == <<pending_message_id, chunk_index, tts_threads, announced, completion, stream>>

cacheVars == <<cache, chunk_ready, now, fetch, answer>>

vars == <<scoreVars, evaluateVars, transcriptVars, detectorVars, streamVars, cacheVars, legacy>>

\* No evaluate is under way: the normalizers are called on their own.
NoEvaluate == activity = NoActivity /\ reply = "json_object" /\ posts = 0

\* No transcript is asked for.
NoTranscript == messages = <<>> /\ max_turns = 0 /\ max_chars = 0 /\ transcript = <<>>

NotFlushed == [called |-> FALSE, found |-> <<>>, returned |-> PyNone]

NotLater == [called |-> FALSE, token |-> <<>>, returned |-> <<>>]

\* No text is streamed.
NoDetector ==
    /\ script = <<>>
    /\ fed = 0
    /\ buffer = <<>>
    /\ sentences = <<>>
    /\ accepted = {}
    /\ flushed = NotFlushed
    /\ reflushed = NotFlushed
    /\ later = NotLater

NotCalled == [raised |-> FALSE, pending |-> TRUE]

NotCompleted == [sent |-> FALSE, pending_id |-> "", total_chunks |-> 0]

\* No response is streamed.
NoStream ==
    /\ pending_message_id = ""
    /\ chunk_index = 0
    /\ tts_threads = <<>>
    /\ announced = <<>>
    /\ completion = NotCompleted
    /\ stream = "none"

NotFetching ==
    [state |-> "idle", message_id |-> <<>>, index |-> 0, retries |-> 0, seen |-> {},
     status |-> 0, audio |-> <<>>]

NoAnswer == [op |-> "none", key |-> <<>>, returned |-> PyNone, age |-> 0]

\* The cache is not in use.
NoCache ==
    /\ cache = EmptyDictionary
    /\ chunk_ready = EmptyDictionary
    /\ now = 0
    /\ fetch = NotFetching
    /\ answer = NoAnswer

\* The Flask application is not asked.
NoMigration == legacy = NotCalled

\* No rubric is scored.
NoScoring ==
    /\ rubric = Nothing
    /\ data = NoDocument
    /\ result = NotCalled
    /\ again = NotCalled

InitPack ==
    /\ mode = "pack"
    /\ \/ \E input \in PackLeafInputs : rubric = input.rubric /\ data = input.data
       \/ \E input \in PackGridInputs : rubric = input.rubric /\ data = input.data
       \/ \E input \in PackCriteriaInputs : rubric = input.rubric /\ data = input.data
       \/ \E input \in PackSectionsInputs : rubric = input.rubric /\ data = input.data
       \/ \E input \in PackTemplatesInputs : rubric = input.rubric /\ data = input.data
    /\ calls = 0
    /\ result = NotCalled
    /\ again = NotCalled
    /\ NoEvaluate
    /\ NoTranscript
    /\ NoDetector
    /\ NoStream
    /\ NoCache
    /\ NoMigration

InitCategory ==
    /\ mode = "category"
    /\ \/ \E input \in CategoryLeafInputs : rubric = input.rubric /\ data = input.data
       \/ \E input \in CategoryGridInputs : rubric = input.rubric /\ data = input.data
       \/ \E input \in CategorySubsInputs : rubric = input.rubric /\ data = input.data
       \/ \E input \in CategoryListInputs : rubric = input.rubric /\ data = input.data
    /\ calls = 0
    /\ result = NotCalled
    /\ again = NotCalled
    /\ NoEvaluate
    /\ NoTranscript
    /\ NoDetector
    /\ NoStream
    /\ NoCache
    /\ NoMigration

Init == InitPack \/ InitCategory

\* A normalizer that takes the templates out of the judge's document as it
\* reads them (data.pop("templates")).
NormalizePackConsuming ==
    /\ mode = "pack"
    /\ calls < 2
    /\ calls' = calls + 1
    /\ IF calls = 0
       THEN result' = PackNormalize(data, rubric) /\ again' = again
       ELSE again' = PackNormalize(data, rubric) /\ result' = result
    /\ data' = [data EXCEPT !.templates = JAbsent]
    /\ UNCHANGED <<streamVars, cacheVars, legacy, mode, rubric, evaluateVars, transcriptVars,
                   detectorVars>>

\* RubricPackEvaluator._normalize_response(data, rubric): neither argument is
\* assigned to; the second call is the same call again.
NormalizePack ==
    /\ mode = "pack"
    /\ calls < 2
    /\ calls' = calls + 1
    /\ IF calls = 0
       THEN result' = PackNormalize(data, rubric) /\ again' = again
       ELSE again' = PackNormalize(data, rubric) /\ result' = result
    /\ UNCHANGED <<streamVars, cacheVars, legacy, mode, rubric, data, evaluateVars,
                   transcriptVars, detectorVars>>

\* CategoryRubricEvaluator._normalize_response(data, rubric)
NormalizeCategory ==
    /\ mode = "category"
    /\ calls < 2
    /\ calls' = calls + 1
    /\ IF calls = 0
       THEN result' = CategoryNormalize(data, rubric) /\ again' = again
       ELSE again' = CategoryNormalize(data, rubric) /\ result' = result
    /\ UNCHANGED <<streamVars, cacheVars, legacy, mode, rubric, data, evaluateVars,
                   transcriptVars, detectorVars>>

Next == NormalizePack \/ NormalizeCategory

Spec == Init /\ [][Next]_vars

(***************************************************************************)
(* evaluate: one invocation on an activity, with one reply of the judge.   *)
(***************************************************************************)

InitEvaluatePack ==
    /\ mode = "pack"
    /\ \/ \E a \in WeightActivities \cup PackActivities :
            activity = a /\ reply = "json_object" /\ data = PackAnswer(JInt(2))
       \/ \E a \in ReplyActivities, r \in Replies \ {"json_object"} :
            activity = a /\ reply = r /\ data = NoDocument
       \/ \E a \in ReplyActivities, d \in PackDocs :
            activity = a /\ reply = "json_object" /\ data = d

InitEvaluateCategory ==
    /\ mode \in {"category", "migration"}
    /\ \/ \E a \in CategoryActivities, r \in Replies \ {"json_object"} :
            activity = a /\ reply = r /\ data = NoDocument
       \/ \E a \in CategoryActivities, d \in CategoryDocs :
            activity = a /\ reply = "json_object" /\ data = d

InitEvaluate ==
    /\ InitEvaluatePack \/ InitEvaluateCategory
    /\ rubric = Nothing
    /\ calls = 0
    /\ result = NotCalled
    /\ again = NotCalled
    /\ posts = 0
    /\ NoTranscript
    /\ NoDetector
    /\ NoStream
    /\ NoCache
    /\ NoMigration

\* RubricPackEvaluator.evaluate(activity_id, messages)
EvaluatePack ==
    /\ mode = "pack"
    /\ result = NotCalled
    /\ rubric' = PackLoadActivityRubric(activity)
    /\ posts' = IF PackShortCircuits(rubric') THEN posts ELSE posts + 1
    /\ calls' = IF PackShortCircuits(rubric') \/ Caught(reply) THEN calls ELSE calls + 1
    /\ result' = PackEvaluate(rubric', reply, data)
    /\ UNCHANGED <<streamVars, cacheVars, legacy, mode, data, again, activity, reply,
                   transcriptVars, detectorVars>>

\* CategoryRubricEvaluator.evaluate(activity_id, messages)
EvaluateCategory ==
    /\ mode \in {"category", "migration"}
    /\ result = NotCalled
    /\ rubric' = CategoryLoadActivityRubric(activity)
    /\ posts' = IF Falsy(rubric') THEN posts ELSE posts + 1
    /\ calls' = IF Falsy(rubric') \/ Caught(reply) THEN calls ELSE calls + 1
    /\ result' = CategoryEvaluate(rubric', reply, data)
    /\ UNCHANGED <<streamVars, cacheVars, legacy, mode, data, again, activity, reply,
                   transcriptVars, detectorVars>>

NextEvaluate == EvaluatePack \/ EvaluateCategory

SpecEvaluate == InitEvaluate /\ [][NextEvaluate]_vars

(***************************************************************************)
(* build_transcript: one call of the builder of `mode`.                    *)
(***************************************************************************)

InitTranscript ==
    /\ mode \in {"category", "simple"}
    /\ \E input \in TranscriptInputs :
         /\ messages = input.messages
         /\ max_turns = input.max_turns
         /\ max_chars = input.max_chars
    /\ transcript = <<>>
    /\ calls = 0
    /\ NoScoring
    /\ NoEvaluate
    /\ NoDetector
    /\ NoStream
    /\ NoCache
    /\ NoMigration

\* CategoryRubricEvaluator.build_transcript(messages, max_turns, max_chars)
BuildIndexed ==
    /\ mode = "category"
    /\ calls = 0
    /\ calls' = 1
    /\ transcript' = BuildTranscript(TRUE, messages, max_turns, max_chars)
    /\ UNCHANGED <<streamVars, cacheVars, legacy, mode, rubric, data, result, again,
                   evaluateVars, detectorVars,
                   messages, max_turns, max_chars>>

\* SimpleRubricEvaluator.build_transcript(messages, max_turns, max_chars)
BuildSimple ==
    /\ mode = "simple"
    /\ calls = 0
    /\ calls' = 1
    /\ transcript' = BuildTranscript(FALSE, messages, max_turns, max_chars)
    /\ UNCHANGED <<streamVars, cacheVars, legacy, mode, rubric, data, result, again,
                   evaluateVars, detectorVars,
                   messages, max_turns, max_chars>>

NextTranscript == BuildIndexed \/ BuildSimple

SpecTranscript == InitTranscript /\ [][NextTranscript]_vars

(***************************************************************************)
(* A streamed response: the text arrives token by token through add_token  *)
(* and the stream ends with flush (views.py 430-486, utils.py 227-246).    *)
(***************************************************************************)
InitDetector ==
    /\ mode = "sentences"
    /\ script \in Scripts
    /\ fed = 0
    /\ buffer = <<>>
    /\ sentences = <<>>
    /\ accepted = {}
    /\ flushed = NotFlushed
    /\ reflushed = NotFlushed
    /\ later = NotLater
    /\ calls = 0
    /\ NoScoring
    /\ NoEvaluate
    /\ NoTranscript
    /\ NoStream
    /\ NoCache
    /\ NoMigration

\* add_token returned extracted.
Added(extracted, n) ==
    /\ fed' = fed + n
    /\ buffer' = extracted.buffer
    /\ sentences' = sentences \o extracted.sentences
    /\ accepted' = accepted \cup extracted.accepted
    /\ calls' = calls + 1
    /\ UNCHANGED <<streamVars, cacheVars, legacy, mode, rubric, data, result, again,
                   evaluateVars, transcriptVars,
                   script, flushed, reflushed, later>>

AddToken ==
    /\ mode = "sentences"
    /\ ~flushed.called
    /\ \E n \in TokenLengths(Len(script) - fed) :
          Added(AddTokenTo(buffer, SubSeq(script, fed + 1, fed + n), fed - Len(buffer)), n)

Flush ==
    /\ mode = "sentences"
    /\ ~flushed.called
    /\ fed = Len(script)
    /\ flushed' = [called |-> TRUE, found |-> buffer, returned |-> FlushOf(buffer).returned]
    /\ buffer' = FlushOf(buffer).buffer
    /\ UNCHANGED <<streamVars, cacheVars, legacy, scoreVars, evaluateVars, transcriptVars,
                   script, fed, sentences, accepted,
                   reflushed, later>>

\* flush() called again right after flush().
FlushAgain ==
    /\ mode = "sentences"
    /\ flushed.called
    /\ ~reflushed.called
    /\ ~later.called
    /\ reflushed' = [called |-> TRUE, found |-> buffer, returned |-> FlushOf(buffer).returned]
    /\ buffer' = FlushOf(buffer).buffer
    /\ UNCHANGED <<streamVars, cacheVars, legacy, scoreVars, evaluateVars, transcriptVars,
                   script, fed, sentences, accepted,
                   flushed, later>>

\* add_token(token) on the detector that was flushed.
AddLater ==
    /\ mode = "sentences"
    /\ flushed.called
    /\ ~later.called
    /\ \E token \in LaterTokens :
          /\ later' = [called |-> TRUE, token |-> token,
                       returned |-> AddTokenTo(buffer, token, 0).sentences]
          /\ buffer' = AddTokenTo(buffer, token, 0).buffer
    /\ UNCHANGED <<streamVars, cacheVars, legacy, scoreVars, evaluateVars, transcriptVars,
                   script, fed, sentences, accepted,
                   flushed, reflushed>>

NextDetector == AddToken \/ Flush \/ FlushAgain \/ AddLater

SpecDetector == InitDetector /\ [][NextDetector]_vars

(***************************************************************************)
(* One streamed response (views.py 425-509): stream_chat_completion yields *)
(* a token chunk for every non-empty content and a done chunk at the end   *)
(* (services.py 476-509), or the stream breaks with an exception.          *)
(***************************************************************************)
InitStream ==
    /\ mode = "stream"
    /\ script \in StreamScripts
    /\ fed = 0
    /\ buffer = <<>>
    /\ sentences = <<>>
    /\ accepted = {}
    /\ flushed = NotFlushed
    /\ reflushed = NotFlushed
    /\ later = NotLater
    /\ pending_message_id \in PendingIds
    /\ chunk_index = 0
    /\ tts_threads = <<>>
    /\ announced = <<>>
    /\ completion = NotCompleted
    /\ stream = "open"
    /\ calls = 0
    /\ NoScoring
    /\ NoEvaluate
    /\ NoTranscript
    /\ NoCache
    /\ NoMigration

\* Lines 482-501: a token chunk, add_token having returned extracted.
TokenHandled(extracted, n) ==
    /\ fed' = fed + n
    /\ buffer' = extracted.buffer
    /\ sentences' = sentences \o extracted.sentences
    /\ accepted' = accepted \cup extracted.accepted
    /\ tts_threads' = Started(tts_threads, extracted.sentences, pending_message_id, chunk_index)
    /\ announced' = announced \o [k \in 1..Len(extracted.sentences) |-> chunk_index + k - 1]
    /\ chunk_index' = chunk_index + Len(extracted.sentences)
    /\ calls' = calls + 1
    /\ UNCHANGED <<mode, rubric, data, result, again, evaluateVars, transcriptVars, cacheVars, legacy,
                   script, flushed, reflushed, later, pending_message_id, completion, stream>>

StreamToken ==
    /\ mode = "stream"
    /\ stream = "open"
    /\ \E n \in TokenLengths(Len(script) - fed) :
          TokenHandled(AddTokenTo(buffer, SubSeq(script, fed + 1, fed + n), fed - Len(buffer)), n)

\* Lines 445-476: the done chunk.  Message.objects.create may raise after
\* the final thread was started; then no completion event is sent.
StreamDone ==
    /\ mode = "stream"
    /\ stream = "open"
    /\ fed = Len(script)
    /\ flushed' = [called |-> TRUE, found |-> buffer, returned |-> FlushOf(buffer).returned]
    /\ buffer' = FlushOf(buffer).buffer
    /\ tts_threads' = Started(tts_threads, FinalSentences(FlushOf(buffer).returned),
                              pending_message_id, chunk_index)
    /\ chunk_index' = chunk_index + Len(FinalSentences(FlushOf(buffer).returned))
    /\ \/ /\ stream' = "completed"
          /\ completion' = [sent |-> TRUE, pending_id |-> pending_message_id,
                            total_chunks |-> chunk_index']
       \/ /\ stream' = "failed"
          /\ UNCHANGED completion
    /\ UNCHANGED <<scoreVars, evaluateVars, transcriptVars, cacheVars, legacy, script, fed, sentences,
                   accepted, reflushed, later, pending_message_id, announced>>

\* Lines 504-506: the stream raised before its done chunk.
StreamBreaks ==
    /\ mode = "stream"
    /\ stream = "open"
    /\ stream' = "failed"
    /\ UNCHANGED <<scoreVars, evaluateVars, transcriptVars, cacheVars, legacy, detectorVars,
                   pending_message_id, chunk_index, tts_threads, announced, completion>>

NextStream == StreamToken \/ StreamDone \/ StreamBreaks

SpecStream == InitStream /\ [][NextStream]_vars

(***************************************************************************)
(* The chunk fetch (views.py 671-737) against the synthesis threads        *)
(* (174-203) and the clock.  The conversation of the request exists: the   *)
(* lookup of lines 683-689 is not part of the model.                       *)
(***************************************************************************)
InitFetch ==
    /\ mode = "fetch"
    /\ cache = EmptyDictionary
    /\ chunk_ready = EmptyDictionary
    /\ now = 0
    /\ fetch = NotFetching
    /\ answer = NoAnswer
    /\ calls = 0
    /\ NoScoring
    /\ NoEvaluate
    /\ NoTranscript
    /\ NoDetector
    /\ NoStream
    /\ NoMigration

\* pregenerate_tts_chunk reaches line 198; a thread whose synthesis raises
\* stores nothing (lines 202-203).
ThreadStores ==
    /\ mode = "fetch"
    /\ \E m \in MessageIds, i \in 0..MaxChunk, audio_data \in AudioValues :
          /\ cache' = set_chunk(cache, chunk_ready, m, i, audio_data, now).cache
          /\ chunk_ready' = set_chunk(cache, chunk_ready, m, i, audio_data, now).chunk_ready
    /\ UNCHANGED <<scoreVars, evaluateVars, transcriptVars, detectorVars, streamVars, legacy,
                   now, fetch, answer>>

\* time.time() advances.
Tick ==
    /\ mode \in {"fetch", "cache"}
    /\ now < MaxTime
    /\ now' = now + 1
    /\ UNCHANGED <<scoreVars, evaluateVars, transcriptVars, detectorVars, streamVars, legacy,
                   cache, chunk_ready, fetch, answer>>

\* The audio stored and not expired for the chunk of the fetch, if any.
StoredNow(m, i) ==
    IF ChunkKey(m, i) \in DOMAIN cache /\ ~Expired(cache, ChunkKey(m, i), now)
    THEN {cache[ChunkKey(m, i)].audio}
    ELSE {}

\* One poll of the cache by the fetch of chunk (m, i), polled being the
\* value get_chunk returned: lines 696-711 when retries is 0 polls before,
\* lines 714-730 after, lines 732-736 when the last poll fails.
Polled(m, i, polled, retries) ==
    /\ cache' = polled.cache
    /\ fetch' =
         IF ~polled.returned.none /\ Len(polled.returned.s) > 0
         THEN [state |-> "answered", message_id |-> m, index |-> i, retries |-> retries,
               seen |-> fetch.seen \cup StoredNow(m, i), status |-> 200, audio |-> polled.returned.s]
         ELSE IF retries = MaxRetries
         THEN [state |-> "answered", message_id |-> m, index |-> i, retries |-> retries,
               seen |-> fetch.seen \cup StoredNow(m, i), status |-> 202, audio |-> <<>>]
         ELSE [state |-> "polling", message_id |-> m, index |-> i, retries |-> retries,
               seen |-> fetch.seen \cup StoredNow(m, i), status |-> 0, audio |-> <<>>]
    /\ UNCHANGED <<scoreVars, evaluateVars, transcriptVars, detectorVars, streamVars, legacy,
                   chunk_ready, now, answer>>

\* AudioChunkStreamView.get, up to its first poll (line 696).
FetchChunk ==
    /\ mode = "fetch"
    /\ fetch.state = "idle"
    /\ \E m \in MessageIds, i \in 0..MaxChunk : Polled(m, i, get_chunk(cache, m, i, now), 0)

\* One turn of the loop of lines 714-730.
FetchRetry ==
    /\ mode = "fetch"
    /\ fetch.state = "polling"
    /\ Polled(fetch.message_id, fetch.index,
              get_chunk(cache, fetch.message_id, fetch.index, now), fetch.retries + 1)

NextFetch == ThreadStores \/ Tick \/ FetchChunk \/ FetchRetry

SpecFetch == InitFetch /\ [][NextFetch]_vars

(***************************************************************************)
(* TTSAudioCache called in any order by any callers.                       *)
(***************************************************************************)
InitCache ==
    /\ mode = "cache"
    /\ cache = EmptyDictionary
    /\ chunk_ready = EmptyDictionary
    /\ now = 0
    /\ fetch = NotFetching
    /\ answer = NoAnswer
    /\ calls = 0
    /\ NoScoring
    /\ NoEvaluate
    /\ NoTranscript
    /\ NoDetector
    /\ NoStream
    /\ NoMigration

\* What the other operations leave alone.
CacheOnly ==
    UNCHANGED <<scoreVars, evaluateVars, transcriptVars, detectorVars, streamVars, legacy, now, fetch>>

Answered(op, key, returned, age) == [op |-> op, key |-> key, returned |-> returned, age |-> age]

\* set_chunk(message_id, chunk_index, audio_data)
SetChunk ==
    /\ mode = "cache"
    /\ \E m \in MessageIds, i \in 0..MaxChunk :
          /\ cache' = set_chunk(cache, chunk_ready, m, i, StoredAudio, now).cache
          /\ chunk_ready' = set_chunk(cache, chunk_ready, m, i, StoredAudio, now).chunk_ready
          /\ answer' = Answered("set_chunk", ChunkKey(m, i), PyNone, 0)
    /\ CacheOnly

\* set(key, audio_data), by pregenerate_tts_audio (line 166)
SetMessage ==
    /\ mode = "cache"
    /\ \E m \in MessageIds :
          /\ cache' = CacheSet(cache, m, StoredAudio, now)
          /\ answer' = Answered("set", m, PyNone, 0)
    /\ UNCHANGED chunk_ready
    /\ CacheOnly

\* get(key), and get_chunk(message_id, chunk_index) for the key of a chunk
GetKey ==
    /\ mode = "cache"
    /\ \E key \in CacheKeys :
          /\ cache' = CacheGet(cache, key, now).cache
          /\ answer' = Answered("get", key, CacheGet(cache, key, now).returned,
                                IF key \in DOMAIN cache THEN now - cache[key].timestamp ELSE 0)
    /\ UNCHANGED chunk_ready
    /\ CacheOnly

\* cleanup_expired()
CleanupExpired ==
    /\ mode = "cache"
    /\ cache' = cleanup_expired(cache, chunk_ready, now).cache
    /\ chunk_ready' = cleanup_expired(cache, chunk_ready, now).chunk_ready
    /\ answer' = Answered("cleanup_expired", <<>>, PyNone, 0)
    /\ CacheOnly

NextCache == SetChunk \/ SetMessage \/ GetKey \/ CleanupExpired \/ Tick

SpecCache == InitCache /\ [][NextCache]_vars

\* The same with a clock that does not stop.  No caller is bound to read an
\* entry, and nothing in the program calls cleanup_expired.
SpecExpiry == InitCache /\ [][NextCache]_vars /\ WF_vars(Tick)

(***************************************************************************)
(* One activity evaluated by both applications: CategoryRubricEvaluator    *)
(* of Django and rubric_assessment_api of Flask, on the same rows and the  *)
(* same reply of the judge.                                                *)
(***************************************************************************)

\* What the judge answers: the documents of CategoryDocs, and the same
\* answer with `overall` null and with `overall` filled in.
MigrationDocs ==
    CategoryDocs \cup
    {CategoryDoc(CategoryAnswer(JInt(2)).categories, OverallOfType("null")),
     CategoryDoc(CategoryAnswer(JInt(1)).categories, OverallObject(JInt(99), JBool(TRUE)))}

InitMigration ==
    /\ mode = "migration"
    /\ \/ \E a \in CategoryActivities, r \in Replies \ {"json_object"} :
            activity = a /\ reply = r /\ data = NoDocument
       \/ \E a \in CategoryActivities, d \in MigrationDocs :
            activity = a /\ reply = "json_object" /\ data = d
    /\ rubric = Nothing
    /\ calls = 0
    /\ result = NotCalled
    /\ again = NotCalled
    /\ posts = 0
    /\ legacy = NotCalled
    /\ NoTranscript
    /\ NoDetector
    /\ NoStream
    /\ NoCache

\* POST /activities/<activity_id>/rubric_assessment of the Flask application.
\* Both loaders build the same rubric from the same rows
\* (openai_controller.py 314-378, evaluators.py 19-78).
FlaskRubricAssessment ==
    /\ mode = "migration"
    /\ legacy = NotCalled
    /\ \E status_code \in JudgeStatusCodes :
          legacy' = rubric_assessment_api(CategoryLoadActivityRubric(activity), reply, data,
                                          status_code)
    /\ posts' = IF Falsy(CategoryLoadActivityRubric(activity)) THEN posts ELSE posts + 1
    /\ UNCHANGED <<mode, rubric, data, calls, result, again, activity, reply, transcriptVars,
                   detectorVars, streamVars, cacheVars>>

NextMigration == EvaluateCategory \/ FlaskRubricAssessment

SpecMigration == InitMigration /\ [][NextMigration]_vars

(***************************************************************************)
(* What the properties below speak about.                                  *)
(***************************************************************************)

\* The first call has returned a result (no exception left the function).
PackReturned == mode = "pack" /\ calls >= 1 /\ ~result.raised

CategoryReturned == mode = "category" /\ calls >= 1 /\ ~result.raised

\* Positions <<i, j, k>> of the leaves of the hierarchical result.
OutLeaves ==
    UNION {UNION {{<<i, j, k>> : k \in 1..Len(result.templates[i].sections[j].criteria)} :
                    j \in 1..Len(result.templates[i].sections)} :
             i \in 1..Len(result.templates)}

OutLeaf(p) == result.templates[p[1]].sections[p[2]].criteria[p[3]]

RubricLeaf(p) == rubric.templates[p[1]].sections[p[2]].criteria[p[3]]

\* Lines 770, 778, 786: ai_crit of the rubric leaf at p, the judge's entry for it.
AiCrit(p) ==
    LET ai_templates == AiTemplates(Items(data.templates), Len(Items(data.templates)))
        ai_template == DictGet(ai_templates, JInt(rubric.templates[p[1]].template_id),
                               EmptyDict)
        ai_section == DictGet(ai_template,
                              JInt(rubric.templates[p[1]].sections[p[2]].section_id),
                              EmptyDict)
    IN  DictGet(ai_section, JInt(RubricLeaf(p).criterion_id), EmptyEntry)

\* Positions <<i, k>> of the subcategories of the legacy result.
OutSubs ==
    UNION {{<<i, k>> : k \in 1..Len(result.categories[i].criteria)} :
             i \in 1..Len(result.categories)}

OutSub(p) == result.categories[p[1]].criteria[p[2]]

\* Lines 276-288: the judge's entry for the rubric subcategory at p.
LegacyItem(p) ==
    LET by_cat == ByCat(Items(data.categories), Len(Items(data.categories)))
        crit_in == CritIn(DictGet(by_cat, JInt(rubric[p[1]].category_id), EmptyCategory))
    IN  DictGet(BySub(crit_in, Len(crit_in)),
                JInt(rubric[p[1]].criteria[p[2]].subcategory_id), EmptyItem)

(***************************************************************************)
(* C1: completeness.                                                       *)
(***************************************************************************)
PackMirrorsRubric ==
    /\ Len(result.templates) = Len(rubric.templates)
    /\ \A i \in 1..Len(rubric.templates) :
         LET rt == rubric.templates[i]
             ot == result.templates[i]
         IN  /\ ot.template_id = rt.template_id
             /\ Len(ot.sections) = Len(rt.sections)
             /\ \A j \in 1..Len(rt.sections) :
                  LET rs == rt.sections[j]
                      os == ot.sections[j]
                  IN  /\ os.section_id = rs.section_id
                      /\ Len(os.criteria) = Len(rs.criteria)
                      /\ \A k \in 1..Len(rs.criteria) :
                           os.criteria[k].criterion_id = rs.criteria[k].criterion_id

CategoryMirrorsRubric ==
    /\ Len(result.categories) = Len(rubric)
    /\ \A i \in 1..Len(rubric) :
         /\ result.categories[i].category_id = rubric[i].category_id
         /\ Len(result.categories[i].criteria) = Len(rubric[i].criteria)
         /\ \A k \in 1..Len(rubric[i].criteria) :
              result.categories[i].criteria[k].subcategory_id
                = rubric[i].criteria[k].subcategory_id

\* C1: whatever entries the judge's document holds (none, some missing, extra,
\* duplicated, of unknown id), a result that _normalize_response returns has
\* exactly the rubric's templates, sections and criteria (hierarchical mode) or
\* categories and subcategories (legacy mode): same ids, same order, every leaf
\* once.
C1_Completeness ==
    /\ PackReturned => PackMirrorsRubric
    /\ CategoryReturned => CategoryMirrorsRubric

\* The rubric section has two criteria; the judge answered criterion 1 twice,
\* criterion 2 never, and the result still mirrors the rubric.
C1_Witness ==
    /\ PackReturned
    /\ Len(rubric.templates) = 1
    /\ Len(rubric.templates[1].sections) = 1
    /\ Len(rubric.templates[1].sections[1].criteria) = 2
    /\ Len(Items(data.templates)) = 1
    /\ Len(Items(Items(data.templates)[1].sections)) = 1
    /\ LET cs == Items(Items(Items(data.templates)[1].sections)[1].criteria)
       IN  /\ Len(cs) = 2
           /\ cs[1].criterion_id = JInt(1)
           /\ cs[2].criterion_id = JInt(1)
    /\ PackMirrorsRubric
    /\ OutLeaf(<<1, 1, 1>>).score = 2
    /\ OutLeaf(<<1, 1, 2>>).score = 0

(***************************************************************************)
(* C2: totality.                                                           *)
(***************************************************************************)

\* C2: for every judge document, wrong-typed fields included, the call returns
\* a result and raises nothing.
C2_NeverRaises == calls >= 1 => ~result.raised

(***************************************************************************)
(* C3: clamping, hierarchical mode.                                        *)
(***************************************************************************)

\* C3: every leaf score of a hierarchical result is 0, 1 or 2, and it is 0 when
\* the judge's entry has no score or a score that is no number.
C3_PackScoresClamped ==
    PackReturned =>
      \A p \in OutLeaves :
        /\ OutLeaf(p).score \in {0, 1, 2}
        /\ ~IsNumber(AiCrit(p).score) => OutLeaf(p).score = 0

\* The judge scored a leaf 7 and the result holds 2 for it.
C3_Witness ==
    /\ PackReturned
    /\ \E p \in OutLeaves : AiCrit(p).score = JInt(7) /\ OutLeaf(p).score = 2

(***************************************************************************)
(* C4: clamping, legacy mode.                                              *)
(***************************************************************************)

\* C4: every subcategory score of a legacy result is an integer from 0 to 2,
\* whatever score the judge returned.
C4_LegacyScoresClamped ==
    CategoryReturned => \A p \in OutSubs : OutSub(p).score \in {0, 1, 2}

(***************************************************************************)
(* C5: a score given as the string "2".                                    *)
(***************************************************************************)

Centis(weight) == CHOOSE k \in WeightCentis : WeightFloat[k] = weight

\* Hundred times the sums over the criteria of score x weight and 2 x weight.
SectionCentis(criteria) ==
    SumInts([k \in 1..Len(criteria) |-> criteria[k].score * Centis(criteria[k].weight)],
            Len(criteria))

SectionMaxCentis(criteria) ==
    SumInts([k \in 1..Len(criteria) |-> 2 * Centis(criteria[k].weight)], Len(criteria))

SectionsAreSums ==
    \A i \in 1..Len(result.templates) :
      \A j \in 1..Len(result.templates[i].sections) :
        LET os == result.templates[i].sections[j]
        IN  /\ 100 * os.score = SectionCentis(os.criteria)
            /\ 100 * os.max_score = SectionMaxCentis(os.criteria)

TemplatesAreSums ==
    \A i \in 1..Len(result.templates) :
      LET ot == result.templates[i]
      IN  /\ ot.template_score
               = SumInts([j \in 1..Len(ot.sections) |-> ot.sections[j].score],
                         Len(ot.sections))
          /\ ot.template_max_score
               = SumInts([j \in 1..Len(ot.sections) |-> ot.sections[j].max_score],
                         Len(ot.sections))

OverallIsSum ==
    /\ result.overall.total_score
         = SumInts([i \in 1..Len(result.templates) |-> result.templates[i].template_score],
                   Len(result.templates))
    /\ result.overall.max_score
         = SumInts([i \in 1..Len(result.templates) |->
                      result.templates[i].template_max_score],
                   Len(result.templates))

\* C6: in every hierarchical result each section's score and max_score are the
\* sums over its criteria of score x weight and 2 x weight, each template's
\* figures are the sums of its sections' figures, and the overall figures are
\* the sums of the templates' figures, whatever sums the judge supplied.
C6_AggregatesAreSums ==
    PackReturned => SectionsAreSums /\ TemplatesAreSums /\ OverallIsSum

(***************************************************************************)
(* C7: legacy overall.                                                     *)
(***************************************************************************)

\* C7: in a legacy result overall.total_score is the sum of the category
\* scores and overall.passed is true iff every category passed, whatever
\* `overall` the judge returned.
C7_OverallRecomputed ==
    CategoryReturned =>
      /\ result.overall.total_score
           = SumInts([i \in 1..Len(result.categories) |-> result.categories[i].score],
                     Len(result.categories))
      /\ result.overall.passed
           = (\A i \in 1..Len(result.categories) : result.categories[i].passed)

(***************************************************************************)
(* C8: pass policy, hierarchical mode.                                     *)
(***************************************************************************)

\* Hundred times total score and maximum over all leaves of the result.
ExactScoreCentis ==
    SumInts([i \in 1..Len(result.templates) |->
               SumInts([j \in 1..Len(result.templates[i].sections) |->
                          SectionCentis(result.templates[i].sections[j].criteria)],
                       Len(result.templates[i].sections))],
            Len(result.templates))

ExactMaxCentis ==
    SumInts([i \in 1..Len(result.templates) |->
               SumInts([j \in 1..Len(result.templates[i].sections) |->
                          SectionMaxCentis(result.templates[i].sections[j].criteria)],
                       Len(result.templates[i].sections))],
            Len(result.templates))

\* total_score / max_score * 100 >= 60, the percentage being 0.0 when max_score is 0.
AtLeastPassPercent ==
    ExactMaxCentis > 0 /\ 100 * ExactScoreCentis >= PassPercent * ExactMaxCentis

RequiredAllTwo == \A p \in OutLeaves : OutLeaf(p).is_required => OutLeaf(p).score = 2

\* C8: overall.passed is true iff the percentage is at least 60 and every
\* required criterion has score 2, and required_criteria_met is true iff the
\* latter holds; so exactly 60 percent with all required criteria met passes.
C8_PassPolicy ==
    PackReturned =>
      /\ result.overall.required_criteria_met = RequiredAllTwo
      /\ result.overall.passed = (AtLeastPassPercent /\ RequiredAllTwo)

(***************************************************************************)
(* C9: rewrite rule.                                                       *)
(***************************************************************************)

\* C9: in every result of either mode a leaf whose score is 2 has
\* rewrite_if_missing null or empty, whatever the judge supplied.
C9_NoRewriteAtTwo ==
    /\ PackReturned =>
         \A p \in OutLeaves :
           OutLeaf(p).score = 2 => OutLeaf(p).rewrite_if_missing \in {JNull, JStr("")}
    /\ CategoryReturned =>
         \A p \in OutSubs :
           OutSub(p).score = 2 => OutSub(p).rewrite_if_missing \in {JNull, JStr("")}

(***************************************************************************)
(* C10: idempotence and purity.                                            *)
(***************************************************************************)

Evaluated == result # NotCalled

\* The request was sent and no JSON came back: transport error, error
\* status, a body that is no JSON, a message content that is no JSON.
JudgeFailed ==
    /\ posts = 1
    /\ reply \in {"transport_error", "http_error", "body_not_json", "content_not_json"}

\* C11: when the request to the judge fails (transport error, error status, a
\* body or a message content that is not parseable JSON), evaluate of either
\* evaluator raises nothing and returns a result whose overall.passed is false
\* and whose total_score is 0.
C11_JudgeFailureContained ==
    (Evaluated /\ JudgeFailed) =>
        /\ ~result.raised
        /\ ~result.overall.passed
        /\ result.overall.total_score = 0

\* The judge's content was no JSON and the hierarchical evaluate returned the
\* failed result; the same in legacy mode after an error status.
C11_Witness ==
    /\ Evaluated
    /\ JudgeFailed
    /\ \/ mode = "pack" /\ reply = "content_not_json"
       \/ mode = "category" /\ reply = "http_error"
    /\ ~result.raised
    /\ ~result.overall.passed

\* Every leaf of the result has score 0.
AllLeavesZero ==
    IF mode = "pack"
    THEN \A p \in OutLeaves : OutLeaf(p).score = 0
    ELSE \A p \in OutSubs : OutSub(p).score = 0

\* C12: the result evaluate returns when the request to the judge fails holds
\* every template, section and criterion (every category and subcategory) of
\* the resolved rubric, each leaf with score 0.
C12_FailureResultComplete ==
    (Evaluated /\ JudgeFailed /\ ~result.raised) =>
        /\ IF mode = "pack" THEN PackMirrorsRubric ELSE CategoryMirrorsRubric
        /\ AllLeavesZero

\* The activity resolves to nothing to grade: it is missing, it has no rubric
\* pack (no categories), or none of its pack's templates is published and
\* of a track that is included.
NothingResolved ==
    \/ ~activity.exists
    \/ mode = "category" /\ Len(activity.categories) = 0
    \/ mode = "pack" /\ activity.rubric_pack.null
    \/ /\ mode = "pack"
       /\ \A n \in 1..Len(activity.rubric_pack.entries) :
            LET template == activity.rubric_pack.entries[n]
            IN  \/ template.status # "published"
                \/ activity.exclude_generic_comms /\ template.track_type = "generic_comms"

\* C13: when the activity resolves to an empty rubric, no request is ever
\* sent to the judge, and evaluate returns overall.passed = true with
\* total_score 0 and no template (no category).
C13_EmptyRubricShortCircuit ==
    NothingResolved =>
        /\ posts = 0
        /\ Evaluated =>
             /\ ~result.raised
             /\ result.overall.passed
             /\ result.overall.total_score = 0
             /\ IF mode = "pack" THEN Len(result.templates) = 0
                                 ELSE Len(result.categories) = 0

\* The pack's only template is a draft: evaluate returned passed although the
\* judge would have failed.
C13_Witness ==
    /\ mode = "pack"
    /\ Evaluated
    /\ activity.exists
    /\ ~activity.rubric_pack.null
    /\ Len(activity.rubric_pack.entries) = 1
    /\ NothingResolved
    /\ reply = "transport_error"
    /\ result.overall.passed
    /\ posts = 0

(***************************************************************************)
(* C14, C15: the resolved tree.                                            *)
(***************************************************************************)

\* Positions <<i, j, k>> of the leaves of the resolved hierarchical rubric.
RubricLeaves ==
    UNION {UNION {{<<i, j, k>> : k \in 1..Len(rubric.templates[i].sections[j].criteria)} :
                    j \in 1..Len(rubric.templates[i].sections)} :
             i \in 1..Len(rubric.templates)}

\* evaluate has loaded a hierarchical rubric of a pack.
PackLoaded == mode = "pack" /\ Evaluated /\ ~Falsy(rubric)

\* <<template id, criterion id, weight>> of every leaf of the tree.
TreeWeights ==
    {<<rubric.templates[p[1]].template_id, RubricLeaf(p).criterion_id, RubricLeaf(p).weight>> :
        p \in RubricLeaves}

\* The same of what get_all_criteria returns for the pack.
PackWeights ==
    LET criteria == get_all_criteria(activity.rubric_pack.entries, 1,
                                     ~activity.exclude_generic_comms, <<>>)
    IN  {<<criteria[x].template, criteria[x].criterion, criteria[x].weight>> :
            x \in 1..Len(criteria)}

\* C14: the weight of every leaf of the resolved tree is the template
\* criterion's weight_override whenever one is set (not null) and the
\* criterion's base weight otherwise, the value get_all_criteria reports as
\* effective_weight.
C14_EffectiveWeight ==
    PackLoaded =>
        /\ TreeWeights = PackWeights
        /\ \A p \in RubricLeaves :
             \E n \in 1..Len(activity.rubric_pack.entries) :
               LET template == activity.rubric_pack.entries[n]
               IN  /\ template.id = rubric.templates[p[1]].template_id
                   /\ \E k \in 1..Len(template.template_criteria) :
                        LET tc == template.template_criteria[k]
                        IN  /\ tc.criterion.id = RubricLeaf(p).criterion_id
                            /\ RubricLeaf(p).weight =
                                 FloatOfCentis(IF tc.weight_override.null
                                               THEN tc.criterion.weight.centis
                                               ELSE tc.weight_override.centis)

\* C15: no criterion_id appears twice in a resolved tree, across all its
\* templates and sections.
C15_LeafIdsUnique ==
    PackLoaded =>
        \A p, q \in RubricLeaves :
            RubricLeaf(p).criterion_id = RubricLeaf(q).criterion_id => p = q

(***************************************************************************)
(* C16, C17: the transcript.                                               *)
(***************************************************************************)

\* build_transcript has returned.
Built == calls = 1 /\ mode \in {"category", "simple"}

\* The n most recent items of s: all of s when it has no more than n items.
MostRecent(s, n) == IF n >= Len(s) THEN s ELSE SubSeq(s, Len(s) - n + 1, Len(s))

\* The positions of a window, in order, whose message has non-blank text.
RECURSIVE Spoken(_, _)
Spoken(window, n) ==
    IF n = 0 THEN <<>>
    ELSE IF Len(Text(window[n])) > 0 THEN Append(Spoken(window, n - 1), n)
    ELSE Spoken(window, n - 1)

\* One line per message of the window with non-blank text: its zero-based
\* position in the window, DOCTOR for role 'user' and PATIENT for any other
\* role (the simple builder prints the role itself and no position).
WindowLines(window) ==
    LET spoken == Spoken(window, Len(window))
    IN  [x \in 1..Len(spoken) |->
           IF mode = "category"
           THEN <<"[">> \o Str(spoken[x] - 1) \o <<"]", " ">>
                \o (IF Role(window[spoken[x]]) = <<"u", "s", "e", "r">>
                    THEN <<"D", "O", "C", "T", "O", "R">>
                    ELSE <<"P", "A", "T", "I", "E", "N", "T">>)
                \o <<":", " ">> \o Text(window[spoken[x]])
           ELSE Role(window[spoken[x]]) \o <<":", " ">> \o Text(window[spoken[x]])]

\* The lines of the max_turns most recent messages, joined by newlines.
WindowText ==
    LET lines == WindowLines(MostRecent(messages, max_turns))
    IN  Join(lines, 1, <<>>)

\* C16: for any message list and any max_turns, the transcript is made of the
\* max_turns most recent messages only (the oldest dropped first), one line
\* per message with non-blank text, DOCTOR for role 'user' and PATIENT for any
\* other role, the printed index being the zero-based position inside that
\* window; 50 turns with max_turns = 40 give the last 40, indexed 0..39.
C16_TranscriptWindow ==
    (Built /\ Len(WindowText) <= max_chars) => transcript = WindowText

\* The same for a max_turns of at least 1.
TranscriptWindowFromOne == max_turns >= 1 => C16_TranscriptWindow

\* The text before the character bound is applied.
Formatted ==
    Join(Lines(mode = "category", Last(messages, max_turns), 0, <<>>), 1, <<>>)

\* The n last characters of s.
Trailing(s, n) == SubSeq(s, Len(s) - n + 1, Len(s))

\* C17: for any max_chars the text returned is never longer than max_chars:
\* a formatted text longer than max_chars is replaced by exactly its trailing
\* max_chars characters, any other is returned whole.
C17_TranscriptCharBound ==
    Built =>
        /\ Len(transcript) <= max_chars
        /\ transcript = IF Len(Formatted) > max_chars THEN Trailing(Formatted, max_chars)
                                                     ELSE Formatted

\* The same for a max_chars of at least 1.
TranscriptCharBoundFromOne == max_chars >= 1 => C17_TranscriptCharBound

\* Fifty turns with max_turns = 40: forty lines, the first of which is
\* "[0] DOCTOR: a" and the last "[39] PATIENT: a".
FiftyTurns ==
    (Built /\ mode = "category" /\ Len(messages) = 50 /\ max_turns = 40) =>
        /\ Len(transcript) = 5 * 13 + 5 * 14 + 15 * 14 + 15 * 15 + 39
        /\ SubSeq(transcript, 1, 13)
             = <<"[", "0", "]", " ", "D", "O", "C", "T", "O", "R", ":", " ", "a">>
        /\ SubSeq(transcript, Len(transcript) - 15, Len(transcript))
             = <<"\n", "[", "3", "9", "]", " ", "P", "A", "T", "I", "E", "N", "T", ":", " ", "a">>

(***************************************************************************)
(* SentenceDetector: the claims on the boundaries add_token accepts.       *)
(***************************************************************************)

\* The character of the stream at position p, positions counted from 0.
Char(p) == script[p + 1]

\* The stream has a period at p.
PeriodAt(p) == p >= 0 /\ p < Len(script) /\ Char(p) = "."

DecimalDigits == {"0", "1", "2", "3", "4", "5", "6", "7", "8", "9"}

\* The period at p has a digit right before it and a digit right after it.
BetweenDigits(p) ==
    /\ PeriodAt(p)
    /\ p >= 1 /\ Char(p - 1) \in DecimalDigits
    /\ p + 1 < Len(script) /\ Char(p + 1) \in DecimalDigits

PiIs314 ==
    <<"P", "i", " ", "i", "s", " ", "3", ".", "1", "4", " ", "t", "o", "d", "a", "y", ".">>

\* The stream is over: every character was passed and flush was called.
Streamed == fed = Len(script) /\ flushed.called

\* C18: however the text is cut into tokens, no period between two digits
\* is accepted as a boundary, and "Pi is 3.14 today." comes out as the one
\* sentence that ends with "today.".
C18_DecimalNotSplit ==
    /\ \A p \in accepted : ~BetweenDigits(p)
    /\ script = PiIs314 => sentences = <<>>
    /\ script = PiIs314 /\ Streamed => flushed.returned = PyStr(PiIs314)

\* The text of the claim was streamed in several tokens.
C18_Witness == script = PiIs314 /\ Streamed /\ calls > 1 /\ BetweenDigits(7)

\* The word before position p: the last whitespace-delimited word of what
\* precedes p in the stream, in lower case and without its trailing periods.
WordBefore(p) == RStripPeriods(Lower(LastRun(RStrip(SubSeq(script, 1, p)))))

\* The period at p follows an abbreviation of the set, or a word of at most
\* two letters.
AfterAbbreviation(p) ==
    /\ PeriodAt(p)
    /\ Len(RStrip(SubSeq(script, 1, p))) > 0
    /\ \/ WordBefore(p) \in ABBREVIATIONS
       \/ Len(WordBefore(p)) <= 2 /\ IsAlpha(WordBefore(p))

ISawDrSmith ==
    <<"I", " ", "s", "a", "w", " ", "D", "r", ".", " ", "S", "m", "i", "t", "h", " ",
      "t", "o", "d", "a", "y", ".">>

\* C19: add_token never accepts as a boundary a period whose preceding word
\* is an abbreviation of the set or has at most two letters, and
\* "I saw Dr. Smith today." is not split after "Dr.".
C19_AbbreviationNotSplit ==
    /\ \A p \in accepted : ~AfterAbbreviation(p)
    /\ script = ISawDrSmith => 8 \notin accepted /\ sentences = <<>>

\* The text of the claim was streamed in several tokens, and the period
\* after "Dr" was looked at.
C19_Witness ==
    script = ISawDrSmith /\ Streamed /\ calls > 1 /\ AfterAbbreviation(8)
        /\ flushed.returned = PyStr(ISawDrSmith)

\* The period at p has another period right before it or right after it.
InPeriodRun(p) ==
    /\ PeriodAt(p)
    /\ PeriodAt(p - 1) \/ PeriodAt(p + 1)

\* C20: no period of a run of two or more consecutive periods is accepted
\* as a boundary.
C20_EllipsisNotSplit == \A p \in accepted : ~InPeriodRun(p)

\* What _is_ellipsis_context does ensure: an accepted period of a run is the
\* last period of a run of exactly two.
EllipsisOfThreeNotSplit ==
    \A p \in accepted : InPeriodRun(p) => ~PeriodAt(p + 1) /\ ~PeriodAt(p - 2)

(***************************************************************************)
(* SentenceDetector: flush, and the sentences as a whole.                  *)
(***************************************************************************)

\* What flush has to return when it finds the buffer b.
TrimmedOrNone(b) == IF Len(Strip(b)) > 0 THEN PyStr(Strip(b)) ELSE PyNone

\* What add_token(token) returns on a detector whose buffer is empty.
FromCleanBuffer(token) == AddTokenTo(<<>>, token, 0).sentences

\* C21: flush returns the trimmed buffer when it is not blank and None
\* otherwise, the buffer is empty when it returns, a flush repeated at once
\* returns None, and a later token starts from a clean buffer.
C21_FlushClears ==
    /\ flushed.called => flushed.returned = TrimmedOrNone(flushed.found)
    /\ flushed.called /\ ~later.called => buffer = <<>>
    /\ reflushed.called => reflushed.returned = PyNone
    /\ later.called => later.returned = FromCleanBuffer(later.token)

\* What flush does ensure: the value returned, and None from a flush
\* repeated at once.
FlushReturnsTrimmed ==
    /\ flushed.called => flushed.returned = TrimmedOrNone(flushed.found)
    /\ reflushed.called => reflushed.returned = PyNone
    /\ flushed.called /\ ~flushed.returned.none /\ ~later.called => buffer = <<>>

\* All the sentences of the stream: those add_token returned, then the one
\* flush returned.
StreamedSentences ==
    IF flushed.returned.none THEN sentences ELSE Append(sentences, flushed.returned.s)

\* C26: the sentences obtained for a text are the same however the text is
\* cut into tokens, and the same as split_into_sentences gives for it.
C26_TokenizationIndependent == Streamed => StreamedSentences = SplitIntoSentences(script)

\* The characters of s that are not whitespace, in order.
RECURSIVE NonWhitespace(_)
NonWhitespace(s) ==
    IF Len(s) = 0 THEN <<>>
    ELSE IF Head(s) \in Whitespace THEN NonWhitespace(Tail(s))
    ELSE <<Head(s)>> \o NonWhitespace(Tail(s))

\* The sentences of ss one after the other.
RECURSIVE Concatenated(_)
Concatenated(ss) == IF Len(ss) = 0 THEN <<>> ELSE Head(ss) \o Concatenated(Tail(ss))

\* s is a sentence as add_token returns them.
WellFormed(s) ==
    /\ Len(s) > 0
    /\ s[1] \notin Whitespace
    /\ s[Len(s)] \in {".", "!", "?"}

\* C27: the characters of the sentences returned so far and then of the
\* buffer are, whitespace apart, the characters of the tokens added, in
\* order; every sentence returned is not empty, is trimmed and ends with
\* '.', '!' or '?'.
C27_TextConserved ==
    /\ ~flushed.called =>
          NonWhitespace(Concatenated(sentences) \o buffer)
              = NonWhitespace(SubSeq(script, 1, fed))
    /\ \A i \in 1..Len(sentences) : WellFormed(sentences[i])

\* Several tokens were added, two sentences were returned and the buffer
\* holds the rest.
C27_Witness ==
    /\ ~flushed.called
    /\ calls > 1
    /\ Len(sentences) >= 2
    /\ Len(buffer) > 0

(***************************************************************************)
(* C28, C30: the figures of the hierarchical result.                       *)
(***************************************************************************)

\* C28: in every hierarchical result overall.passed is true exactly when
\* the reported overall.percentage (one decimal, here in tenths) is at least
\* 60 and required_criteria_met is true.
C28_ReportedFiguresConsistent ==
    PackReturned =>
        result.overall.passed
            = (/\ result.overall.percentage >= 10 * PassPercent
               /\ result.overall.required_criteria_met)

\* The resolved hierarchical rubric holds no criterion: it is empty, or it
\* has no template, or only templates without criteria.
NoCriterionResolved == Falsy(rubric) \/ RubricLeaves = {}

\* evaluate short-circuited, or the judge answered with a JSON object.
ShortCircuitOrJudged == posts = 0 \/ (posts = 1 /\ reply = "json_object")

\* C30: when the resolved hierarchical rubric holds no criterion at all,
\* RubricPackEvaluator.evaluate returns overall.passed = true, after a
\* successful judge call as well as on the short circuit.
C30_NothingToGradePasses ==
    (mode = "pack" /\ Evaluated /\ NoCriterionResolved /\ ShortCircuitOrJudged) =>
        /\ ~result.raised
        /\ result.overall.passed

(***************************************************************************)
(* The synthesis tasks of a streamed response, the chunk fetch and the     *)
(* cache between them.                                                     *)
(***************************************************************************)

\* The sentences a thread is owed: those add_token returned, then what a
\* flush that found text returned.
Dispatched ==
    sentences \o (IF flushed.called /\ ~flushed.returned.none /\ Len(flushed.returned.s) > 0
                  THEN <<flushed.returned.s>> ELSE <<>>)

C23_ChunkFetch ==
    mode = "fetch" /\ fetch.state = "answered" =>
      /\ fetch.status \in {200, 202}
      /\ fetch.status = 200 <=> fetch.seen # {}

\* The same for the chunks whose audio is not empty: the fetch answers 200
\* with the audio iff one of its polls found audio that is not empty, and
\* 202 otherwise.
FetchAnswersStoredAudio ==
    mode = "fetch" /\ fetch.state = "answered" =>
      /\ fetch.status \in {200, 202}
      /\ fetch.status = 200 <=> fetch.seen \ {<<>>} # {}
      /\ fetch.status = 200 => fetch.audio \in fetch.seen

\* The entry of key is in the cache and older than the TTL.
Overdue(key) == key \in DOMAIN cache /\ Expired(cache, key, now)

\* get returned an entry no older than the TTL, if it returned one.
GetReturnsFresh ==
    mode = "cache" /\ answer.op = "get" /\ ~answer.returned.none => answer.age <= Ttl

\* C24: an entry of the cache whose TTL has elapsed is eventually removed
\* (or stored anew), whether or not anybody reads it, and get never returns
\* an entry older than the TTL.
C24_ExpiredEntriesRemoved ==
    /\ \A key \in CacheKeys : Overdue(key) ~> ~Overdue(key)
    /\ []GetReturnsFresh

\* get never returns an entry older than the TTL.
GetNeverReturnsStale == []GetReturnsFresh

\* The chunks of message id m that get_chunk would return now.
Retrievable(m) == {i \in 0..MaxChunk : ~get_chunk(cache, m, i, now).returned.none}

BookkeepingAgrees ==
    \A m \in MessageIds :
       /\ \A i \in 0..MaxChunk : is_chunk_ready(chunk_ready, m, i) => i \in Retrievable(m)
       /\ get_chunk_count(chunk_ready, m) = Cardinality(Retrievable(m))

\* C29: after any calls of the cache, is_chunk_ready(m, i) is true only if
\* get_chunk(m, i) would return audio, and get_chunk_count(m) is the number
\* of chunks of m that can still be retrieved.
C29_BookkeepingAgrees == mode = "cache" => BookkeepingAgrees

\* The same right after cleanup_expired.
AgreesAfterCleanup == [][CleanupExpired => BookkeepingAgrees']_vars

\* The same while no entry of the cache is older than the TTL.
AgreesWithoutOverdue ==
    mode = "cache" /\ (\A key \in DOMAIN cache : ~Expired(cache, key, now)) => BookkeepingAgrees

\* The other way round: a chunk get_chunk would return is marked ready.
RetrievableIsReady ==
    mode = "cache" =>
       \A m \in MessageIds : \A i \in Retrievable(m) : is_chunk_ready(chunk_ready, m, i)

\* The categories and overall of Django's result are those of Flask's
\* response.
SameAssessment ==
    /\ ~result.raised
    /\ legacy.status = 200
    /\ legacy.body.categories = result.categories
    /\ legacy.body.overall = result.overall

BothAnswered == mode = "migration" /\ result # NotCalled /\ legacy # NotCalled

\* C25: on the same legacy rubric and the same outcome of the judge (valid
\* JSON, content that is no JSON, `overall` null, HTTP error), Django's
\* CategoryRubricEvaluator.evaluate returns the categories and overall that
\* Flask's rubric_assessment_api returned.
C25_MigrationEquivalent == BothAnswered => SameAssessment

\* The same when the judge answered a JSON object whose `overall` is an
\* object or missing, or when there is nothing to grade.
MigrationEquivalentOnObjects ==
    /\ BothAnswered
    /\ \/ Falsy(rubric)
       \/ reply = "json_object" /\ data.overall.t \in {"absent", "dict"}
    => SameAssessment

=============================================================================
